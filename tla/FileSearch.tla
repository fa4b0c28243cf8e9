----------------------------- MODULE FileSearch -----------------------------
(***************************************************************************)
(* hw1: a search of a directory tree.  walk_in_dir() reads the entries of  *)
(* a directory in the order readdir() gives them and calls itself on the   *)
(* directories; each entry that meets the criteria is added, with the      *)
(* directories above it, to the tree below root, which is printed at the   *)
(* end.  A path is the sequence of its names below search_dir, so that     *)
(* <<>> is search_dir itself, and a name is a sequence of characters.      *)
(*                                                                         *)
(* stat() of the entries abstracts size, permissions and number of links,  *)
(* the three properties find_property() takes from it: they are those      *)
(* searched for ("right") or not ("wrong"), or the call fails ("fails").   *)
(***************************************************************************)
EXTENDS NameMatch, FiniteSets, SequencesExt

CONSTANTS Directories, \* functions from paths to what is at them
          Arguments,   \* sequences of options: w f b t, or any other
          target_ftype,
          MaxDepth,    \* 100, the rows of path_as_list
          Chunk        \* 20, the entries allocated at a time

ASSUME SearchAssumption == MaxDepth \in Nat \ {0} /\ Chunk \in Nat \ {0}

\* What is at a path is in directories.
ASSUME DirectoryAssumption ==
  \A f \in Directories : \A p \in DOMAIN f :
     /\ p \in Seq(FileNames) /\ p # <<>>
     /\ \A k \in 1 .. Len(p) : SubSeq(p, 1, k) \in DOMAIN f
     /\ f[p].stat \in {"right", "wrong", "fails"}

VARIABLES files,      \* what lies below search_dir
          argv, pc,
          frames,     \* calls of walk_in_dir(): directory, entries left, f_stat
          entry,      \* the path in fpath
          at,         \* current_entry of add_to_tree()
          nodes,      \* root and what sub_entries lead to
          file_found, printing, printed,
          freed       \* how often what each sub_entries points to has been
                      \* given back

searchVars == <<files, argv, pc, frames, entry, at, nodes, file_found,
                printing, printed, freed>>
allVars == <<matchVars, searchVars>>

NULL  == 0
Unset == -1   \* a pointer nobody has assigned

Node(pointer) == [subs |-> <<>>, allocated |-> pointer, capacity |-> 0]

Criteria == {argv[i] : i \in DOMAIN argv} \ {"w"}

Entries(dir) == {p[Len(p)] : p \in {q \in DOMAIN files :
                                       q # <<>> /\ Front(q) = dir}}

\* A call of walk_in_dir(): its f_stat is not initialised.
Call(dir, garbage) ==
  [dir |-> dir, unread |-> Entries(dir), f_stat |-> garbage]

SearchInit ==
  /\ MatchInit
  /\ files \in Directories /\ argv \in Arguments
  /\ pc = "arguments"
  /\ frames = <<>> /\ entry = <<>> /\ at = <<>>
  /\ nodes = [p \in {<<>>} |-> Node(NULL)]
  /\ file_found = FALSE /\ printing = <<>> /\ printed = <<>>
  /\ freed = [p \in DOMAIN files \cup {<<>>} |-> 0]

-------------------------------------------------------------------------------
(* take_arguments() and walk_in_dir() *)

\* The options are counted, not the criteria: -w twice is enough.
TakesArguments ==
  /\ pc = "arguments"
  /\ IF "w" \in Range(argv) /\ Len(argv) >= 2
        /\ Range(argv) \subseteq {"w", "f", "b", "t"}
     THEN /\ pc' = "walk"
          /\ \E garbage \in {"right", "wrong"} :
                frames' = <<Call(<<>>, garbage)>>
     ELSE pc' = "exited" /\ UNCHANGED frames
  /\ UNCHANGED <<matchVars, files, argv, entry, at, nodes, file_found,
                 printing, printed, freed>>

Frame == Last(frames)

Walks == /\ pc = "walk"
         /\ UNCHANGED <<files, argv, at, nodes, file_found, printing, printed, freed>>

SkipsHidden ==
  Walks /\ \E name \in Frame.unread :
     /\ name[1] = "."
     /\ frames' = [frames EXCEPT ![Len(frames)].unread = @ \ {name}]
     /\ UNCHANGED <<matchVars, pc, entry>>

\* When stat() fails, a message is printed and f_stat keeps what the entry
\* before left in it.
ReadsEntry ==
  Walks /\ \E name \in Frame.unread :
     LET path == Append(Frame.dir, name)
     IN /\ name[1] # "."
        /\ entry' = path
        /\ frames' = [frames EXCEPT ![Len(frames)] =
                        [dir |-> Frame.dir, unread |-> Frame.unread \ {name},
                         f_stat |-> IF files[path].stat = "fails" THEN Frame.f_stat
                                    ELSE files[path].stat]]
        /\ pc' = "test"
        /\ IF "f" \in Criteria THEN Calls(name) ELSE UNCHANGED matchVars

MatchesName == pc = "test" /\ is_match /\ UNCHANGED searchVars

\* Mutant: one criterion is enough.
is_target_any ==
  \/ "f" \in Criteria /\ result = "yes"
  \/ "b" \in Criteria /\ Frame.f_stat = "right"
  \/ "t" \in Criteria /\ files[entry].ftype = target_ftype

is_target_file ==
  /\ "f" \in Criteria => result = "yes"
  /\ "b" \in Criteria => Frame.f_stat = "right"
  /\ "t" \in Criteria => files[entry].ftype = target_ftype

\* A path of more names than path_as_list has rows ends the program.
Tests ==
  /\ pc = "test" /\ result # "running"
  /\ IF is_target_file
     THEN /\ file_found' = TRUE
          /\ pc' = IF Len(entry) > MaxDepth THEN "exited" ELSE "add"
     ELSE pc' = "descend" /\ UNCHANGED file_found
  /\ at' = <<>>
  /\ UNCHANGED <<matchVars, files, argv, frames, entry, nodes, printing, printed,
                 freed>>

\* Directories are those that d_type says are: not links to them, and not
\* where the file system does not tell.  opendir() may fail.
Descends ==
  /\ pc = "descend"
  /\ pc' = "walk"
  /\ IF files[entry].ftype = "d" /\ files[entry].opens
     THEN \E garbage \in {"right", "wrong"} :
             frames' = Append(frames, Call(entry, garbage))
     ELSE UNCHANGED frames
  /\ UNCHANGED <<matchVars, files, argv, entry, at, nodes, file_found, printing,
                 printed, freed>>

WalkReturns ==
  /\ pc = "walk" /\ Frame.unread = {}
  /\ frames' = Front(frames)
  /\ IF Len(frames) = 1 THEN pc' = "print" /\ printing' = <<<<>>>>
     ELSE UNCHANGED <<pc, printing>>
  /\ UNCHANGED <<matchVars, files, argv, entry, at, nodes, file_found, printed,
                 freed>>

-------------------------------------------------------------------------------
(* add_to_tree() and add_entry() *)

NextName == entry[Len(at) + 1]

Adding == UNCHANGED <<matchVars, files, argv, frames, entry, file_found,
                      printing, printed, freed>>

\* get_index() finds the name below current_entry.
GoesDown == /\ pc = "add" /\ at # entry
            /\ Contains(nodes[at].subs, NextName)
            /\ at' = Append(at, NextName)
            /\ UNCHANGED <<pc, nodes>> /\ Adding

\* Mutant: a full block is used as if it had room.
RoomIfAny == /\ pc = "add" /\ at # entry
             /\ ~ Contains(nodes[at].subs, NextName)
             /\ nodes[at].allocated # NULL
             /\ pc' = "place"
             /\ UNCHANGED <<at, nodes>> /\ Adding

\* get_index() does not find it, and add_entry() has room for it.
HasRoom == /\ pc = "add" /\ at # entry
           /\ ~ Contains(nodes[at].subs, NextName)
           /\ nodes[at].allocated # NULL
           /\ nodes[at].capacity > Len(nodes[at].subs)
           /\ pc' = "place"
           /\ UNCHANGED <<at, nodes>> /\ Adding

\* The first block: malloc().
Allocates == /\ pc = "add" /\ at # entry
             /\ nodes[at].allocated = NULL
             /\ nodes' = [nodes EXCEPT ![at].capacity = Chunk]
             /\ pc' = "store"
             /\ UNCHANGED at /\ Adding

\* realloc() enlarges the block where it is, or moves it and gives the old one
\* back.  capacity stays what it was, so that this happens for every further
\* entry.
Reallocs == /\ pc = "add" /\ at # entry
            /\ ~ Contains(nodes[at].subs, NextName)
            /\ nodes[at].allocated # NULL
            /\ nodes[at].capacity <= Len(nodes[at].subs)
            /\ \E moved \in {0, 1} : freed' = [freed EXCEPT ![at] = moved]
            /\ pc' = "store"
            /\ UNCHANGED <<matchVars, files, argv, frames, entry, at, nodes,
                           file_found, printing, printed>>

\* The result is stored in sub_entries: a first block is then tested for room.
StoresBlock ==
  /\ pc = "store"
  /\ nodes' = [nodes EXCEPT ![at].allocated =
                  IF @ = NULL THEN Chunk ELSE Len(nodes[at].subs) + Chunk]
  /\ freed' = [freed EXCEPT ![at] = 0]
  /\ pc' = IF nodes[at].allocated = NULL THEN "add" ELSE "place"
  /\ UNCHANGED <<matchVars, files, argv, frames, entry, at, file_found, printing,
                 printed>>

\* The entry is counted before its own pointer is set.
PlacesEntry ==
  /\ pc = "place"
  /\ LET placed == Append(at, NextName)
     IN nodes' = [p \in DOMAIN nodes \cup {placed} |->
                    IF p = placed THEN Node(Unset)
                    ELSE IF p = at
                    THEN [nodes[p] EXCEPT !.subs = Append(@, NextName)]
                    ELSE nodes[p]]
  /\ pc' = "clear"
  /\ UNCHANGED at /\ Adding

\* Mutant: the pointer of the new entry is not set.
LeavesUnset == /\ pc = "clear"
               /\ UNCHANGED nodes
               /\ at' = Append(at, NextName)
               /\ pc' = "add" /\ Adding

Clears == /\ pc = "clear"
          /\ nodes' = [nodes EXCEPT ![Append(at, NextName)] = Node(NULL)]
          /\ at' = Append(at, NextName)
          /\ pc' = "add" /\ Adding

Added == /\ pc = "add" /\ at = entry
         /\ pc' = "descend"
         /\ UNCHANGED <<at, nodes>> /\ Adding

-------------------------------------------------------------------------------
(* print_output_tree(), free_tree() and handle_sigint() *)

\* Depth first, in the order of sub_entries.
Prints ==
  LET p == Head(printing)
      children == [i \in DOMAIN nodes[p].subs |-> Append(p, nodes[p].subs[i])]
  IN /\ pc = "print"
     /\ IF file_found /\ printing # <<>>
        THEN /\ printed' = Append(printed, p)
             /\ printing' = children \o Tail(printing)
             /\ UNCHANGED pc
        ELSE pc' = "free" /\ UNCHANGED <<printing, printed>>
     /\ UNCHANGED <<matchVars, files, argv, frames, entry, at, nodes, file_found,
                    freed>>

\* What free() is called with, NULL apart.
Blocks == {p \in DOMAIN nodes : nodes[p].allocated # NULL}

\* How often free_tree() comes to an entry: for each way to it over the indices
\* of sub_entries below root.
Indices == UNION {DOMAIN nodes[q].subs : q \in DOMAIN nodes}

Visits(p) ==
  Cardinality({way \in [DOMAIN p -> Indices] :
                 \A k \in DOMAIN p :
                    LET subs == nodes[SubSeq(p, 1, k - 1)].subs
                    IN way[k] \in DOMAIN subs /\ subs[way[k]] = p[k]})

\* A block is freed when those its entries point to are.
Frees ==
  /\ pc = "free"
  /\ LET left == {p \in Blocks : freed[p] < Visits(p)}
     IN IF left = {} THEN pc' = "ended" /\ UNCHANGED freed
        ELSE /\ \E p \in left : /\ \A q \in left \ {p} : ~ IsPrefix(p, q)
                                /\ freed' = [freed EXCEPT ![p] = @ + 1]
             /\ UNCHANGED pc
  /\ UNCHANGED <<matchVars, files, argv, frames, entry, at, nodes, file_found,
                 printing, printed>>

\* handle_sigint() frees the tree, however far it is built, and exits.  A pointer
\* that leads nowhere may end the process first.
Interrupts ==
  /\ pc \notin {"exited", "ended"}
  /\ pc' = "exited"
  /\ \/ freed' = [p \in DOMAIN freed |->
                    freed[p] + IF p \in Blocks THEN Visits(p) ELSE 0]
     \/ /\ \E p \in Blocks : freed[p] > 0 \/ nodes[p].allocated = Unset
        /\ UNCHANGED freed
  /\ UNCHANGED <<matchVars, files, argv, frames, entry, at, nodes, file_found,
                 printing, printed>>

Runs == \/ TakesArguments \/ SkipsHidden \/ ReadsEntry \/ MatchesName \/ Tests
        \/ Descends \/ WalkReturns
        \/ GoesDown \/ HasRoom \/ Allocates \/ Reallocs \/ StoresBlock
        \/ PlacesEntry \/ Clears \/ Added
        \/ Prints \/ Frees

SearchNext == Runs \/ Interrupts

SearchSpec == SearchInit /\ [][SearchNext]_allVars /\ WF_allVars(Runs)
-------------------------------------------------------------------------------
(* Properties *)

Reached(p) ==
  /\ p # <<>>
  /\ \A k \in DOMAIN p : p[k][1] # "."
  /\ \A q \in Prefixes(p) \ {<<>>, p} : files[q].ftype = "d" /\ files[q].opens

Meets(p, stats, named) ==
  /\ Reached(p)
  /\ "f" \in Criteria => named
  /\ "b" \in Criteria => files[p].stat \in stats
  /\ "t" \in Criteria => files[p].ftype = target_ftype

LowerName(p) == make_lover_case(Last(p))

\* The paths that meet the criteria, and those that may be taken for such: a path
\* whose stat() fails is judged by what stat() said of an entry before it, and
\* is_match() may answer yes wrongly.
Sure == {p \in DOMAIN files : Meets(p, {"right"}, Denotes(syntax, LowerName(p)))}
Possible ==
  {p \in DOMAIN files : Meets(p, {"right", "fails"},
                              \/ Denotes(syntax, LowerName(p))
                              \/ WrongYes(syntax, LowerName(p)))}

WithParents(paths) == UNION {Prefixes(p) : p \in paths}

\* What hw1 prints when it ends: every path that meets the criteria, unless
\* is_match() may answer no wrongly, and the directories above it, each once and
\* after its parent; and besides only what may be taken for such a path.
FoundExactly ==
  pc \in {"free", "ended"} =>
    /\ \/ "f" \in Criteria /\ WrongNo(syntax)
       \/ WithParents(Sure) \subseteq Range(printed)
    /\ Range(printed) \subseteq WithParents(Possible)
    /\ IsInjective(printed)
    /\ \A i \in DOMAIN printed :
          printed[i] = <<>> \/ \E j \in 1 .. i - 1 : printed[j] = Front(printed[i])

\* The moments at which a pointer of the tree is not to a block of its own: an
\* entry is counted and its pointer not set, realloc() has returned and its
\* result is not stored, and main() is freeing.
Misplaced == \/ pc = "clear"
             \/ pc = "store" /\ nodes[at].allocated # NULL
             \/ pc = "free"

\* add_entry() never counts more entries than it has allocated, and whoever
\* frees the tree, main at the end or the handler of SIGINT at any other than
\* these moments, frees every block once and nothing else.
BlocksSound ==
  [][/\ \A p \in DOMAIN nodes' :
          nodes'[p].allocated # Unset => Len(nodes'[p].subs) <= nodes'[p].allocated
     /\ pc' = "ended" \/ (Interrupts /\ ~ Misplaced) =>
          \A p \in DOMAIN freed :
             freed'[p] = IF p \in Blocks /\ nodes[p].allocated # Unset
                         THEN 1 ELSE 0]_allVars

\* The walk and the loop of is_match() come to an end.
SearchEnds == <>(pc \in {"exited", "ended"})
=============================================================================
