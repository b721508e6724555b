---------------------------- MODULE AtomicObjects ----------------------------
(***************************************************************************)
(* What gardb promises about an object: whatever its callers do at once,   *)
(* time out of or repeat, the object goes through a sequence of versions,  *)
(* each made from the one before it by one caller's mutations alone.       *)
(***************************************************************************)
EXTENDS Naturals, TLAPS

CONSTANTS Procs, Ids

VARIABLE objs   \* id -> its state and version, and the mutations it carries

Absent == [status |-> "absent", version |-> 0, content |-> [q \in Procs |-> 0]]

Init == objs = [i \in Ids |-> Absent]

\* Only p's component of object i grows.
Mutates(p, i) ==
  LET n == objs'[i].content[p] IN
  /\ n \in Nat /\ n > objs[i].content[p]
  /\ objs' = [objs EXCEPT ![i] = [status |-> "active", version |-> objs[i].version + 1,
                                  content |-> [objs[i].content EXCEPT ![p] = n]]]

Create(p, i) == objs[i].status = "absent" /\ Mutates(p, i)

Modify(p, i) == objs[i].status = "active" /\ Mutates(p, i)

Delete(i) ==
  /\ objs[i].status = "active"
  /\ objs' = [objs EXCEPT ![i].status = "deleted"]

Recover(i) ==
  /\ objs[i].status = "deleted"
  /\ objs' = [objs EXCEPT ![i].status = "active"]

Next ==
  \E i \in Ids :
    \/ Delete(i) \/ Recover(i)
    \/ \E p \in Procs : Create(p, i) \/ Modify(p, i)

Spec == Init /\ [][Next]_objs

-----------------------------------------------------------------------------
(* What the promise means to the callers.                                  *)

TypeOK ==
  objs \in [Ids -> [status : {"absent", "active", "deleted"}, version : Nat,
                    content : [Procs -> Nat]]]

\* Nothing that was ever stored is undone, whether or not its caller was told:
\* no mutation disappears and no version or object comes back, and an object
\* that has the same version still has the same content.
Forward ==
  \A i \in Ids :
    /\ \A p \in Procs : objs[i].content[p] <= objs'[i].content[p]
    /\ objs[i].version <= objs'[i].version
    /\ objs[i].version = objs'[i].version => objs[i].content = objs'[i].content
    /\ objs[i].status # "absent" => objs'[i].status # "absent"

LEMMA TypeStep == TypeOK /\ [Next]_objs => TypeOK'
PROOF
<1>. SUFFICES ASSUME TypeOK, Next PROVE TypeOK'
  BY DEF TypeOK
<1>. USE DEF TypeOK
<1>1. ASSUME NEW i \in Ids, Delete(i) \/ Recover(i) PROVE TypeOK'
  BY <1>1 DEF Delete, Recover
<1>2. ASSUME NEW i \in Ids, NEW p \in Procs, Mutates(p, i) PROVE TypeOK'
  <2>1. PICK n \in Nat :
          objs' = [objs EXCEPT ![i] = [status |-> "active", version |-> objs[i].version + 1,
                                       content |-> [objs[i].content EXCEPT ![p] = n]]]
    BY <1>2 DEF Mutates
  <2>2. [objs[i].content EXCEPT ![p] = n] \in [Procs -> Nat] /\ objs[i].version + 1 \in Nat
    OBVIOUS
  <2>. QED  BY <2>1, <2>2
<1>. QED  BY <1>1, <1>2 DEF Next, Create, Modify

LEMMA Typed == Spec => []TypeOK
PROOF
<1>1. Init => TypeOK
  BY DEF Init, TypeOK, Absent
<1>. QED  BY <1>1, TypeStep, PTL DEF Spec

LEMMA StepForward == TypeOK /\ [Next]_objs => [Forward]_objs
PROOF
<1>. SUFFICES ASSUME TypeOK, Next, NEW i \in Ids
              PROVE  /\ \A p \in Procs : objs[i].content[p] <= objs'[i].content[p]
                     /\ objs[i].version <= objs'[i].version
                     /\ objs[i].version = objs'[i].version => objs[i].content = objs'[i].content
                     /\ objs[i].status # "absent" => objs'[i].status # "absent"
  BY DEF Forward
<1>. USE DEF TypeOK
<1>1. CASE objs'[i] = objs[i]
  BY <1>1
<1>2. CASE Delete(i) \/ Recover(i)
  BY <1>2 DEF Delete, Recover
<1>3. ASSUME NEW p \in Procs, Mutates(p, i)
      PROVE  /\ \A q \in Procs : objs[i].content[q] <= objs'[i].content[q]
             /\ objs'[i].version = objs[i].version + 1
             /\ objs'[i].status = "active"
  <2>1. PICK n \in Nat :
          /\ n > objs[i].content[p]
          /\ objs' = [objs EXCEPT ![i] = [status |-> "active", version |-> objs[i].version + 1,
                                          content |-> [objs[i].content EXCEPT ![p] = n]]]
    BY <1>3 DEF Mutates
  <2>. QED  BY <2>1
<1>4. ASSUME NEW j \in Ids \ {i}, Delete(j) \/ Recover(j) \/ \E p \in Procs : Mutates(p, j)
      PROVE  objs'[i] = objs[i]
  BY <1>4 DEF Delete, Recover, Mutates
<1>5. objs[i].version # objs[i].version + 1 /\ objs[i].version <= objs[i].version + 1
  OBVIOUS
<1>. QED  BY <1>1, <1>2, <1>3, <1>4, <1>5 DEF Next, Create, Modify

\* Atomic objects only ever go forward.
THEOREM NothingIsUndone == Spec => [][Forward]_objs
PROOF
<1>. QED  BY Typed, StepForward, PTL DEF Spec

=============================================================================
