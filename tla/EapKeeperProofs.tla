--------------------------- MODULE EapKeeperProofs ---------------------------
(***************************************************************************)
(* IInv of EapKeeper is inductive when the children of two logins do not   *)
(* overlap.                                                                *)
(***************************************************************************)
EXTENDS EapKeeper, TLAPS

USE KeeperAssumption

(* The initial states have neither children nor keepers. *)
LEMMA InitInv == Init => IInv
<1> SUFFICES ASSUME Init PROVE IInv
  OBVIOUS
<1>1. \A p \in Pids : role[p] \in {"free", "other"}
  BY DEF Init
<1>2. TypeOK
  BY DEF Init, TypeOK, Roles
<1> QED
  BY <1>1, <1>2 DEF IInv, OneChild, OneKeeper, FileNamesKeeper, Children, Ours

(* A login forks only when no child is left. *)
LEMMA ForkStep ==
    ASSUME IInv, ~ Overlap, NEW p \in Pids, Fork(p)
    PROVE  IInv'
<1>1. /\ role' = [role EXCEPT ![p] = "forked"] /\ file' = file
      /\ \A q \in Pids : role[q] \notin Children
  BY DEF Fork, Become
<1>2. TypeOK'
  BY <1>1 DEF IInv, TypeOK, Roles, Ours, Children
<1>3. \A q \in Pids : role'[q] = IF q = p THEN "forked" ELSE role[q]
  BY <1>1 DEF IInv, TypeOK
<1> QED
  BY <1>1, <1>2, <1>3
  DEF IInv, OneChild, OneKeeper, FileNamesKeeper, Children, Ours

(* The kill leaves no keeper, since the file named the only one there was. *)
LEMMA InheritStep ==
    ASSUME IInv, NEW p \in Pids, Inherit(p)
    PROVE  IInv'
<1>1. /\ role[p] = "forked"
      /\ file' = IF file = NoFile THEN Empty ELSE file
  BY DEF Inherit
<1>2. \A q \in Pids : role'[q] = IF q = file THEN "free"
                                 ELSE IF q = p THEN "heir" ELSE role[q]
  BY DEF Inherit
<1>3. TypeOK'
  BY <1>1 DEF IInv, TypeOK, Inherit, Roles, Ours, Children
<1>4. \A q \in Pids \ {p} : role[q] \notin Children
  BY <1>1 DEF IInv, OneChild, Children
<1>5. ASSUME NEW q \in Pids \ {p}
      PROVE  role'[q] \notin Ours
  <2>1. CASE q = file
    BY <1>2, <2>1 DEF Ours, Children
  <2>2. CASE q # file
    BY <1>2, <1>4, <2>2 DEF IInv, FileNamesKeeper, Ours
  <2> QED
    BY <2>1, <2>2
<1> QED
  BY <1>2, <1>3, <1>5
  DEF IInv, OneChild, OneKeeper, FileNamesKeeper, Children, Ours

(* A child that is past the kill is the only process of ours. *)
LEMMA HeirStep ==
    ASSUME IInv, NEW p \in Pids, Truncate(p) \/ WritePid(p)
    PROVE  IInv'
<1>1. role[p] \in {"heir", "writing"}
  BY DEF Truncate, WritePid
<1>2. \A q \in Pids \ {p} : role[q] \notin Ours
  BY <1>1 DEF IInv, OneChild, OneKeeper, Ours, Children
<1>3. \E r \in {"writing", "keeper"} :
         /\ role' = [role EXCEPT ![p] = r]
         /\ r = "keeper" => file' = p
         /\ file' \in {Empty, p}
  BY DEF Truncate, WritePid, Become
<1>4. PICK r \in {"writing", "keeper"} :
         /\ role' = [role EXCEPT ![p] = r]
         /\ r = "keeper" => file' = p
         /\ file' \in {Empty, p}
  BY <1>3
<1>5. TypeOK'
  BY <1>4 DEF IInv, TypeOK, Roles, Ours, Children
<1>6. \A q \in Pids : role'[q] = IF q = p THEN r ELSE role[q]
  BY <1>4 DEF IInv, TypeOK
<1> QED
  BY <1>2, <1>4, <1>5, <1>6
  DEF IInv, OneChild, OneKeeper, FileNamesKeeper, Children, Ours

(* Whatever only ends a process, or concerns another one, changes nothing. *)
LEMMA OutsideStep ==
    ASSUME IInv, NEW p \in Pids,
           FileUnusable(p) \/ Dies(p) \/ OtherStarts(p) \/ OtherEnds(p)
    PROVE  IInv'
<1>1. PICK r \in {"free", "other"} : role' = [role EXCEPT ![p] = r] /\ file' = file
  BY DEF FileUnusable, Dies, OtherStarts, OtherEnds, Become
<1>2. TypeOK'
  BY <1>1 DEF IInv, TypeOK, Roles
<1>3. \A q \in Pids : role'[q] = IF q = p THEN r ELSE role[q]
  BY <1>1 DEF IInv, TypeOK
<1> QED
  BY <1>1, <1>2, <1>3
  DEF IInv, OneChild, OneKeeper, FileNamesKeeper, Children, Ours

LEMMA NextStep ==
    ASSUME IInv, ~ Overlap, [Next]_vars
    PROVE  IInv'
<1>1. CASE UNCHANGED vars
  BY <1>1 DEF vars, IInv, TypeOK, OneChild, OneKeeper, FileNamesKeeper
<1>2. ASSUME NEW p \in Pids,
             Fork(p) \/ ChildStep(p) \/ Dies(p) \/ OtherStarts(p) \/ OtherEnds(p)
      PROVE  IInv'
  BY <1>2, ForkStep, InheritStep, HeirStep, OutsideStep DEF ChildStep
<1> QED
  BY <1>1, <1>2 DEF Next

(* As long as the child of one successful eaplogin is done before the next *)
(* login succeeds, at most one keep-alive process of ours is past the kill *)
(* of eap_daemon, however many processes died on the way.                  *)
THEOREM KeepersAreAlone ==
    ASSUME ~ Overlap
    PROVE  Spec => []OneKeeper
<1>1. Init => IInv
  BY InitInv
<1>2. IInv /\ [Next]_vars => IInv'
  BY NextStep
<1>3. IInv => OneKeeper
  BY DEF IInv
<1> QED
  BY <1>1, <1>2, <1>3, PTL DEF Spec

(* And the pid file always names the keep-alive process there is.          *)
THEOREM FileFindsKeeper ==
    ASSUME ~ Overlap
    PROVE  Spec => []FileNamesKeeper
<1>1. Init => IInv
  BY InitInv
<1>2. IInv /\ [Next]_vars => IInv'
  BY NextStep
<1>3. IInv => FileNamesKeeper
  BY DEF IInv
<1> QED
  BY <1>1, <1>2, <1>3, PTL DEF Spec
=============================================================================
