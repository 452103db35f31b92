---------------------------- MODULE RwLockProofs -----------------------------
(* Proof that the reader/writer lock excludes, for any number of           *)
(* processors.                                                             *)
EXTENDS RwLock, FiniteSetTheorems, TLAPS

Inv == TypeOK /\ ReadersCounted /\ WriterOwned /\ Exclusion

LEMMA AnnouncedFinite == IsFiniteSet(Announced) /\ Cardinality(Announced) \in Nat
  <1>1. Announced \subseteq CPUs
    BY DEF Announced
  <1> QED
    BY <1>1, CPUsFinite, FS_Subset, FS_CardinalityType

LEMMA Init_Inv == Init => Inv
  <1> SUFFICES ASSUME Init PROVE Inv
    OBVIOUS
  <1>1. Announced = {} /\ Claimed = {}
    BY DEF Init, Announced, Claimed
  <1> QED
    BY <1>1, FS_EmptySet DEF Init, Inv, TypeOK, ReadersCounted, WriterOwned, Exclusion

(* What a step of c does to the set of announced readers.                  *)
LEMMA Announce ==
  ASSUME TypeOK, ReadersCounted, NEW c \in CPUs, c \notin Announced,
         Announced' = Announced \cup {c}, readers' = readers + 1
  PROVE  ReadersCounted'
  BY AnnouncedFinite, FS_AddElement DEF ReadersCounted

LEMMA Withdraw ==
  ASSUME TypeOK, ReadersCounted, NEW c \in CPUs, c \in Announced,
         Announced' = Announced \ {c}, readers' = readers - 1
  PROVE  ReadersCounted'
  BY AnnouncedFinite, FS_RemoveElement DEF ReadersCounted

LEMMA Step_Inv == Inv /\ [Next]_vars => Inv'
  <1> SUFFICES ASSUME Inv, [Next]_vars PROVE Inv'
    OBVIOUS
  <1> USE DEF Inv
  <1>1. CASE UNCHANGED vars
    BY <1>1 DEF vars, TypeOK, ReadersCounted, WriterOwned, Exclusion, Announced, Claimed
  <1>2. ASSUME NEW c \in CPUs, ReadCall(c) \/ WriteCall(c) PROVE Inv'
    <2>1. Announced' = Announced /\ Claimed' = Claimed
      BY <1>2 DEF ReadCall, WriteCall, Goto, Announced, Claimed, TypeOK
    <2> QED
      BY <1>2, <2>1
      DEF ReadCall, WriteCall, Goto, TypeOK, ReadersCounted, WriterOwned, Exclusion
  <1>3. ASSUME NEW c \in CPUs, Read(c) PROVE Inv'
    <2>1. Claimed' = Claimed
      BY <1>3 DEF Read, ReadNoWriter, ReadAnnounce, ReadConfirm, ReadBackOff, ReadUndo,
                  rwlock_read_unlock, Goto, Claimed, TypeOK
    <2>2. WriterOwned'
      BY <1>3, <2>1 DEF Read, ReadNoWriter, ReadAnnounce, ReadConfirm, ReadBackOff, ReadUndo,
                        rwlock_read_unlock, WriterOwned
    <2>3. ReadersCounted' /\ readers' \in Nat
      <3>1. CASE ReadNoWriter(c) \/ ReadConfirm(c) \/ ReadBackOff(c)
        <4>1. Announced' = Announced
          BY <3>1 DEF ReadNoWriter, ReadConfirm, ReadBackOff, Goto, Announced, TypeOK
        <4> QED
          BY <3>1, <4>1 DEF ReadNoWriter, ReadConfirm, ReadBackOff, ReadersCounted, TypeOK
      <3>2. CASE ReadAnnounce(c)
        <4>1. c \notin Announced /\ Announced' = Announced \cup {c}
          BY <3>2 DEF ReadAnnounce, Goto, Announced, TypeOK
        <4> QED
          BY <3>2, <4>1, Announce DEF ReadAnnounce, TypeOK
      <3>3. CASE ReadUndo(c) \/ rwlock_read_unlock(c)
        <4>1. c \in Announced /\ Announced' = Announced \ {c}
          BY <3>3 DEF ReadUndo, rwlock_read_unlock, Goto, Announced, TypeOK
        <4>2. readers \in Nat /\ readers # 0
          BY <4>1, AnnouncedFinite, FS_EmptySet DEF ReadersCounted
        <4> QED
          BY <3>3, <4>1, <4>2, Withdraw DEF ReadUndo, rwlock_read_unlock
      <3> QED
        BY <1>3, <3>1, <3>2, <3>3 DEF Read
    <2>4. Exclusion'
      <3>1. ReadConfirm(c) => \A d \in CPUs : pc[d] # "writing"
        BY DEF ReadConfirm, WriterOwned, Claimed
      <3> QED
        BY <1>3, <3>1 DEF Read, ReadNoWriter, ReadAnnounce, ReadConfirm, ReadBackOff, ReadUndo,
                          rwlock_read_unlock, Goto, Exclusion, TypeOK
    <2> QED
      BY <1>3, <2>2, <2>3, <2>4
      DEF Read, ReadNoWriter, ReadAnnounce, ReadConfirm, ReadBackOff, ReadUndo,
          rwlock_read_unlock, Goto, TypeOK
  <1>4. ASSUME NEW c \in CPUs, Write(c) PROVE Inv'
    <2>1. Announced' = Announced /\ readers' = readers
      BY <1>4 DEF Write, WriteClaim, WriteDrained, rwlock_write_unlock, Goto, Announced, TypeOK
    <2>2. WriterOwned'
      BY <1>4 DEF Write, WriteClaim, WriteDrained, rwlock_write_unlock, Goto, Claimed,
                  WriterOwned, TypeOK
    <2>3. WriteDrained(c) => \A d \in CPUs : pc[d] # "reading"
      BY AnnouncedFinite, FS_EmptySet DEF WriteDrained, ReadersCounted, Announced
    <2>4. Exclusion'
      <3>1. \A d \in CPUs : pc[d] = "writing" /\ pc[c] = "w_drain" => FALSE
        BY DEF WriterOwned, Claimed
      <3> QED
        BY <1>4, <2>3, <3>1 DEF Write, WriteClaim, WriteDrained, rwlock_write_unlock, Goto,
                                Exclusion, TypeOK
    <2> QED
      BY <1>4, <2>1, <2>2, <2>4 DEF Write, WriteClaim, WriteDrained, rwlock_write_unlock, Goto,
                                    ReadersCounted, TypeOK
  <1> QED
    BY <1>1, <1>2, <1>3, <1>4 DEF Next

(* A writer excludes readers and other writers, whatever the number of     *)
(* processors.                                                             *)
THEOREM RwLockExcludes == Spec => []Exclusion
  <1>1. Spec => []Inv
    BY Init_Inv, Step_Inv, PTL DEF Spec
  <1>2. Inv => Exclusion
    BY DEF Inv
  <1> QED
    BY <1>1, <1>2, PTL

(* The reader count never drifts from the number of announced readers.     *)
THEOREM ReaderCountExact == Spec => []ReadersCounted
  <1>1. Spec => []Inv
    BY Init_Inv, Step_Inv, PTL DEF Spec
  <1>2. Inv => ReadersCounted
    BY DEF Inv
  <1> QED
    BY <1>1, <1>2, PTL

=============================================================================
