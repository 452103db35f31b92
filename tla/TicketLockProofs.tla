--------------------------- MODULE TicketLockProofs ----------------------------
(***************************************************************************)
(* Proof that the ticket lock excludes and is served in order, for any     *)
(* number of processors and any range of the counters that has a ticket    *)
(* for each of them.                                                       *)
(***************************************************************************)
EXTENDS TicketLock, FiniteSetTheorems, TLAPS

(* Remainders are used through Wrapped only.                               *)
Rest(x) == x % TicketRange

(* How many tickets come before the one c has drawn.                       *)
Ahead(c) == IF ticket[c] >= serving THEN ticket[c] - serving
            ELSE ticket[c] - serving + TicketRange

(* The tickets out are the ones from serving to next: as many as there are *)
(* queued processors, no two alike, and a holder has the first.            *)
TicketsOut ==
  /\ next = IF serving + Cardinality(Queued) < TicketRange THEN serving + Cardinality(Queued)
            ELSE serving + Cardinality(Queued) - TicketRange
  /\ \A c \in Queued : Ahead(c) < Cardinality(Queued)
  /\ \A c, d \in Queued : c # d => ticket[c] # ticket[d]
  /\ \A c \in CPUs : pc[c] = "holding" => ticket[c] = serving

(* Tickets come up in the order in which they were drawn.                  *)
DrawnInOrder == \A c \in Queued : earlier[c] = {d \in Queued : Ahead(d) < Ahead(c)}

Inv == TypeOK /\ TicketsOut /\ DrawnInOrder

LEMMA Wrapped ==
  ASSUME TicketsSuffice, NEW x \in - TicketRange .. 2 * TicketRange - 1
  PROVE  Rest(x) = IF x < 0 THEN x + TicketRange
                   ELSE IF x < TicketRange THEN x ELSE x - TicketRange
  <1> DEFINE rest == IF x < 0 THEN x + TicketRange
                     ELSE IF x < TicketRange THEN x ELSE x - TicketRange
  <1>1. rest \in 0 .. TicketRange - 1 /\ rest % TicketRange = rest
    BY DEF TicketsSuffice
  <1>2. (rest + TicketRange) % TicketRange = rest
    BY <1>1 DEF TicketsSuffice
  <1>3. (rest - TicketRange) % TicketRange = rest
    BY <1>1 DEF TicketsSuffice
  <1> QED
    BY <1>1, <1>2, <1>3 DEF TicketsSuffice, Rest

LEMMA Following ==
  ASSUME TicketsSuffice, NEW t \in 0 .. TicketRange - 1
  PROVE  Rest(t + 1) = IF t + 1 = TicketRange THEN 0 ELSE t + 1
  <1> DEFINE x == t + 1
  <1>1. x \in - TicketRange .. 2 * TicketRange - 1 /\ x <= TicketRange /\ x >= 0
    BY DEF TicketsSuffice
  <1>2. Rest(x) = IF x < 0 THEN x + TicketRange
                  ELSE IF x < TicketRange THEN x ELSE x - TicketRange
    BY <1>1, Wrapped
  <1> QED
    BY <1>1, <1>2 DEF TicketsSuffice

LEMMA QueuedFinite ==
  ASSUME TicketsSuffice
  PROVE  IsFiniteSet(Queued) /\ Cardinality(Queued) \in Nat /\ Cardinality(Queued) <= TicketRange
  <1>1. Queued \subseteq CPUs
    BY DEF Queued
  <1>2. IsFiniteSet(CPUs) /\ Cardinality(CPUs) \in Nat /\ Cardinality(CPUs) <= TicketRange
    BY FS_CardinalityType DEF TicketsSuffice
  <1>3. IsFiniteSet(Queued) /\ Cardinality(Queued) <= Cardinality(CPUs)
    BY <1>1, <1>2, FS_Subset
  <1>4. Cardinality(Queued) \in Nat
    BY <1>3, FS_CardinalityType
  <1> QED
    BY <1>2, <1>3, <1>4 DEF TicketsSuffice

LEMMA Init_Inv == ASSUME TicketsSuffice, Init PROVE Inv
  <1>1. Queued = {} /\ Cardinality(Queued) = 0
    BY FS_EmptySet DEF Init, Queued
  <1> QED
    BY <1>1 DEF Init, Inv, TypeOK, TicketsOut, DrawnInOrder, TicketsSuffice

LEMMA AcquireKeeps ==
  ASSUME TicketsSuffice, Inv, NEW c \in CPUs, ticket_lock_acquire(c)
  PROVE  Inv'
  <1> DEFINE n == Cardinality(Queued)
  <1>1. c \notin Queued /\ Queued' = Queued \cup {c}
    BY DEF ticket_lock_acquire, Queued, Inv, TypeOK
  <1>2. /\ next' = IF next + 1 = TicketRange THEN 0 ELSE next + 1
        /\ serving' = serving /\ ticket'[c] = next
        /\ \A d \in Queued : ticket'[d] = ticket[d]
    <2>1. next' = Rest(next + 1)
      BY DEF ticket_lock_acquire, Rest
    <2>2. Rest(next + 1) = IF next + 1 = TicketRange THEN 0 ELSE next + 1
      BY Following DEF Inv, TypeOK
    <2>3. c \notin Queued => \A d \in Queued : ticket'[d] = ticket[d]
      BY DEF ticket_lock_acquire, Inv, TypeOK, Queued
    <2> QED
      BY <1>1, <2>1, <2>2, <2>3 DEF ticket_lock_acquire, Inv, TypeOK
  <1>3. Cardinality(Queued') = n + 1 /\ n \in Nat /\ n + 1 <= TicketRange
    <2>1. IsFiniteSet(Queued) /\ n \in Nat
      BY QueuedFinite
    <2>2. Cardinality(Queued \cup {c}) = n + 1
      BY <1>1, <2>1, FS_AddElement
    <2>3. Queued \cup {c} \subseteq CPUs /\ IsFiniteSet(CPUs) /\ Cardinality(CPUs) \in Nat
      BY FS_CardinalityType DEF Queued, TicketsSuffice
    <2>4. n + 1 <= Cardinality(CPUs)
      BY <2>2, <2>3, FS_Subset
    <2> QED
      BY <1>1, <2>1, <2>2, <2>3, <2>4 DEF TicketsSuffice
  <1>4. TypeOK'
    <2>1. Queued \subseteq CPUs
      BY DEF Queued
    <2> QED
      BY <1>2, <2>1 DEF ticket_lock_acquire, Joins, Inv, TypeOK, TicketsSuffice
  <1>5. next' = IF serving' + Cardinality(Queued') < TicketRange THEN serving' + Cardinality(Queued')
                ELSE serving' + Cardinality(Queued') - TicketRange
    BY <1>2, <1>3 DEF Inv, TypeOK, TicketsOut, TicketsSuffice
  <1>6. Ahead(c)' = n
    BY <1>2, <1>3 DEF Ahead, Inv, TypeOK, TicketsOut, TicketsSuffice
  <1>7. \A d \in Queued : Ahead(d)' = Ahead(d) /\ Ahead(d) < n /\ Ahead(d) \in Nat
    BY <1>2 DEF Ahead, Inv, TypeOK, TicketsOut, Queued, TicketsSuffice
  <1>8. \A d \in Queued : ticket'[c] # ticket'[d]
    BY <1>2, <1>3, <1>6, <1>7 DEF Ahead
  <1>9. \A d \in Queued' : Ahead(d)' < Cardinality(Queued')
    BY <1>1, <1>3, <1>6, <1>7
  <1>10. \A d, e \in Queued' : d # e => ticket'[d] # ticket'[e]
    BY <1>1, <1>2, <1>8 DEF Inv, TicketsOut
  <1>11. \A d \in CPUs : pc'[d] = "holding" => ticket'[d] = serving'
    BY <1>2 DEF ticket_lock_acquire, Inv, TypeOK, TicketsOut, Queued
  <1>12. earlier'[c] = Queued /\ \A d \in Queued : earlier'[d] = earlier[d]
    BY <1>1 DEF ticket_lock_acquire, Joins, Inv, TypeOK, Queued
  <1>13. DrawnInOrder'
    <2>1. {e \in Queued' : Ahead(e)' < Ahead(c)'} = Queued
      BY <1>1, <1>3, <1>6, <1>7
    <2>2. ASSUME NEW d \in Queued
          PROVE  {e \in Queued' : Ahead(e)' < Ahead(d)'} = {e \in Queued : Ahead(e) < Ahead(d)}
      <3>1. ~(Ahead(c)' < Ahead(d)')
        BY <1>3, <1>6, <1>7
      <3> QED
        BY <1>1, <1>7, <3>1
    <2>3. \A d \in Queued' : earlier'[d] = {e \in Queued' : Ahead(e)' < Ahead(d)'}
      BY <1>1, <1>12, <2>1, <2>2 DEF Inv, DrawnInOrder
    <2> QED
      BY <2>3 DEF DrawnInOrder
  <1> QED
    BY <1>4, <1>5, <1>9, <1>10, <1>11, <1>13 DEF Inv, TicketsOut

LEMMA ServedKeeps ==
  ASSUME Inv, NEW c \in CPUs, Served(c)
  PROVE  Inv'
  <1>1. Queued' = Queued
    BY DEF Served, Queued, Inv, TypeOK
  <1>2. \A d \in CPUs : Ahead(d)' = Ahead(d)
    BY DEF Served, Ahead
  <1>3. TypeOK'
    BY DEF Served, Inv, TypeOK
  <1>4. Queued \subseteq CPUs
    BY DEF Queued
  <1>5. \A d \in CPUs : pc'[d] = "holding" => ticket[d] = serving
    BY DEF Served, Inv, TypeOK, TicketsOut
  <1>6. next' = next /\ serving' = serving /\ ticket' = ticket /\ earlier' = earlier
    BY DEF Served
  <1>7. TicketsOut'
    BY <1>1, <1>2, <1>4, <1>5, <1>6 DEF Inv, TicketsOut
  <1>8. DrawnInOrder'
    BY <1>1, <1>2, <1>4, <1>6 DEF Inv, DrawnInOrder
  <1> QED
    BY <1>3, <1>7, <1>8 DEF Inv

LEMMA ReleaseKeeps ==
  ASSUME TicketsSuffice, Inv, NEW c \in CPUs, ticket_lock_release(c)
  PROVE  Inv'
  <1> DEFINE n == Cardinality(Queued)
  <1>1. c \in Queued /\ Queued' = Queued \ {c}
    BY DEF ticket_lock_release, Queued, Inv, TypeOK
  <1>2. serving' = IF serving + 1 = TicketRange THEN 0 ELSE serving + 1
    <2>1. serving' = Rest(serving + 1)
      BY DEF ticket_lock_release, Rest
    <2>2. Rest(serving + 1) = IF serving + 1 = TicketRange THEN 0 ELSE serving + 1
      BY Following DEF Inv, TypeOK
    <2> QED
      BY <2>1, <2>2
  <1>3. Cardinality(Queued') = n - 1 /\ n \in Nat \ {0} /\ n <= TicketRange
    <2>1. IsFiniteSet(Queued) /\ n \in Nat /\ n <= TicketRange
      BY QueuedFinite
    <2>2. Cardinality(Queued \ {c}) = n - 1
      BY <1>1, <2>1, FS_RemoveElement
    <2>3. n # 0
      BY <1>1, <2>1, FS_EmptySet
    <2> QED
      BY <1>1, <2>1, <2>2, <2>3
  <1>4. ticket' = ticket /\ next' = next /\ ticket[c] = serving
    BY DEF ticket_lock_release, Inv, TicketsOut
  <1>5. TypeOK'
    BY <1>2 DEF ticket_lock_release, Leaves, Inv, TypeOK, TicketsSuffice
  <1>6. next' = IF serving' + Cardinality(Queued') < TicketRange THEN serving' + Cardinality(Queued')
                ELSE serving' + Cardinality(Queued') - TicketRange
    BY <1>2, <1>3, <1>4 DEF Inv, TypeOK, TicketsOut, TicketsSuffice
  <1>7. ASSUME NEW d \in Queued'
        PROVE  /\ Ahead(d)' < Cardinality(Queued')
               /\ Ahead(d)' = Ahead(d) - 1 /\ Ahead(d) \in Int
    <2>1. d \in Queued /\ d # c /\ d \in CPUs /\ ticket[d] # serving
      BY <1>1, <1>4 DEF Inv, TicketsOut, Queued
    <2>2. Ahead(d) < n
      BY <2>1 DEF Inv, TicketsOut
    <2>3. Ahead(d)' = Ahead(d) - 1
      BY <1>2, <1>4, <2>1 DEF Ahead, Inv, TypeOK, TicketsSuffice
    <2>4. Ahead(d) \in Int
      BY <2>1 DEF Ahead, Inv, TypeOK, TicketsSuffice
    <2> QED
      BY <1>3, <2>2, <2>3, <2>4
  <1>8. \A d, e \in Queued' : d # e => ticket'[d] # ticket'[e]
    BY <1>1, <1>4 DEF Inv, TicketsOut
  <1>9. \A d \in CPUs : pc'[d] # "holding"
    BY <1>4 DEF ticket_lock_release, Inv, TypeOK, TicketsOut, Queued
  <1>10. DrawnInOrder'
    <2>1. ASSUME NEW d \in Queued'
          PROVE  earlier'[d] = {e \in Queued' : Ahead(e)' < Ahead(d)'}
      <3>1. d \in Queued /\ d \in CPUs
        BY <1>1 DEF Queued
      <3>2. earlier'[d] = {e \in Queued : Ahead(e) < Ahead(d)} \ {c}
        BY <3>1 DEF ticket_lock_release, Leaves, Inv, DrawnInOrder
      <3>3. \A e \in Queued' : Ahead(e)' < Ahead(d)' <=> Ahead(e) < Ahead(d)
        BY <1>7
      <3> QED
        BY <1>1, <3>2, <3>3
    <2> QED
      BY <2>1 DEF DrawnInOrder
  <1> QED
    BY <1>5, <1>6, <1>7, <1>8, <1>9, <1>10 DEF Inv, TicketsOut

LEMMA Step_Inv == ASSUME TicketsSuffice, Inv, [Next]_vars PROVE Inv'
  <1>1. CASE UNCHANGED vars
    BY <1>1 DEF vars, Inv, TypeOK, TicketsOut, DrawnInOrder, Queued, Ahead
  <1> QED
    BY <1>1, AcquireKeeps, ServedKeeps, ReleaseKeeps DEF Next

(* No two processors hold a ticket lock, for any number of processors and  *)
(* however often the counters wrap.                                        *)
THEOREM TicketLockExcludes == ASSUME TicketsSuffice PROVE Spec => []MutualExclusion
  <1>1. Init => Inv
    BY Init_Inv
  <1>2. Inv /\ [Next]_vars => Inv'
    BY Step_Inv
  <1>3. Inv => MutualExclusion
    BY DEF Inv, TicketsOut, MutualExclusion, Queued
  <1> QED
    BY <1>1, <1>2, <1>3, PTL DEF Spec

(* The lock goes round in the order of asking: whoever holds it, everybody *)
(* who asked before has had it and given it back, however often the        *)
(* counters wrap.                                                          *)
THEOREM TicketLockFifo == ASSUME TicketsSuffice PROVE Spec => []Fifo
  <1>1. Init => Inv
    BY Init_Inv
  <1>2. Inv /\ [Next]_vars => Inv'
    BY Step_Inv
  <1>3. Inv => Fifo
    <2> SUFFICES ASSUME Inv, NEW c \in CPUs, pc[c] = "holding" PROVE earlier[c] = {}
      BY DEF Fifo
    <2>1. c \in Queued /\ Ahead(c) = 0
      BY DEF Queued, Ahead, Inv, TicketsOut, TypeOK
    <2>2. \A d \in Queued : ~(Ahead(d) < 0)
      BY DEF Queued, Ahead, Inv, TypeOK, TicketsSuffice
    <2> QED
      BY <2>1, <2>2 DEF Inv, DrawnInOrder
  <1> QED
    BY <1>1, <1>2, <1>3, PTL DEF Spec

=============================================================================
