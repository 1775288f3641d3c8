---------------------------- MODULE MCInterleaved ----------------------------
(***************************************************************************)
(* Handlers that check in one transaction and act in another, interleaved:  *)
(* those of the model registry, and beside them those of the accounts, with *)
(* which they share no state.  In a behaviour one of the two, the focus,    *)
(* takes its steps, and the other stays as it began.                        *)
(***************************************************************************)
EXTENDS MCModelRegistry, Accounts, TLC

VARIABLE focus

ASSUME AccountsAssumption == ConstantsOK

\* Nothing tells two accounts, two keys or two of their requests apart.
Symmetry ==
  Permutations(Users) \union Permutations(Keys) \union Permutations(Requests)

MCInit == focus \in {"registry", "accounts"} /\ Init /\ AccountsInit
MCNext ==
  \/ focus = "registry" /\ Next /\ UNCHANGED <<focus, accountVars>>
  \/ focus = "accounts" /\ AccountsNext /\ UNCHANGED <<focus, vars>>
MCSpec == MCInit /\ [][MCNext]_<<focus, vars, accountVars>>

=============================================================================
