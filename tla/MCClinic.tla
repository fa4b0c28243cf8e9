------------------------------ MODULE MCClinic ------------------------------
(* Clinic with a few processes of each kind. *)
EXTENDS Clinic, TLC

\* main and the others loop over processes; no step depends on a number.
ClinicSymmetry == Permutations(Nurses) \cup Permutations(Vaccinators)
                    \cup Permutations(Citizens)
=============================================================================
