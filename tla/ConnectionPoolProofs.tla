------------------------ MODULE ConnectionPoolProofs ------------------------
(***************************************************************************)
(* The safety properties of ConnectionPool for any number of threads, any  *)
(* size of the pool and any number of closings.  The invariant adds to the *)
(* properties that a thread that is about to forget the pool has closed    *)
(* all there was; who holds the lock is part of the type.                  *)
(***************************************************************************)
EXTENDS ConnectionPool, TLAPS

\* Between the closing of the pool and its forgetting nothing is open.
ClosedBeforeForgotten == \A t \in Threads : At(t, "reset") => open = {}

Inv == TypeOK /\ OneOpenPool /\ ClosedBeforeForgotten

-----------------------------------------------------------------------------
\* Init satisfies the type: nobody holds the lock (store/connection.py _pool).
LEMMA InitTypeOK == Init => TypeOK
  <1> SUFFICES ASSUME Init PROVE TypeOK
    OBVIOUS
  <1>1. /\ pool \in Nat /\ created \in Nat /\ open \subseteq 1 .. created /\ pool <= created
        /\ closes \in 0 .. MaxCloses
    BY SizeAssumption DEF Init, None
  <1>3. schema \in BOOLEAN /\ failed \in BOOLEAN
    BY Zenon DEF Init
  <1>2. \A t \in Threads : job[t].pc \in Critical <=> lock = t
    BY ThreadAssumption DEF Init, Idle, Critical
  <1> QED BY <1>1, <1>2, <1>3 DEF Init, TypeOK, Idle, None

\* The actions of a thread that take or give back nothing: the lock, the pool
\* and the schema stay, and the thread stays outside the critical section.
LEMMA QuietTypeOK ==
    ASSUME TypeOK, NEW t \in Threads,
           \/ Call(t) \/ Look(t) \/ ReturnPool(t) \/ Borrow(t) \/ BorrowFails(t)
           \/ EndBody(t) \/ CallClose(t)
    PROVE  TypeOK'
  <1> USE SizeAssumption DEF TypeOK, Critical, At, Goto, Become, Idle, None, Quiet
  <1>1. CASE Call(t) BY <1>1 DEF Call
  <1>2. CASE Look(t) BY <1>2 DEF Look
  <1>3. CASE ReturnPool(t) BY <1>3 DEF ReturnPool
  <1>4. CASE Borrow(t) BY <1>4 DEF Borrow
  <1>5. CASE BorrowFails(t) BY <1>5 DEF BorrowFails
  <1>6. CASE EndBody(t) BY <1>6 DEF EndBody
  <1>7. CASE CallClose(t) BY <1>7 DEF CallClose
  <1> QED BY <1>1, <1>2, <1>3, <1>4, <1>5, <1>6, <1>7

\* The actions around the lock: who enters the critical section takes it, who
\* leaves it, with or without an exception, gives it back.
LEMMA LockTypeOK ==
    ASSUME TypeOK, NEW t \in Threads,
           \/ Acquire(t) \/ Recheck(t) \/ BorrowForSchema(t) \/ EnsureSchema(t)
           \/ EnsureFails(t) \/ AcquireToClose(t) \/ ClosePool(t) \/ ResetPool(t)
    PROVE  TypeOK'
  <1> USE ThreadAssumption, SizeAssumption
      DEF TypeOK, Critical, At, Goto, Become, Idle, None, Quiet
  <1>1. CASE Acquire(t) BY <1>1 DEF Acquire
  <1>2. CASE Recheck(t) BY <1>2 DEF Recheck
  <1>3. CASE BorrowForSchema(t) BY <1>3 DEF BorrowForSchema
  <1>4. CASE EnsureSchema(t) BY <1>4 DEF EnsureSchema
  <1>5. CASE EnsureFails(t) BY <1>5 DEF EnsureFails
  <1>6. CASE AcquireToClose(t) BY <1>6 DEF AcquireToClose
  <1>7. CASE ClosePool(t) BY <1>7 DEF ClosePool
  <1>8. CASE ResetPool(t) BY <1>8 DEF ResetPool
  <1> QED BY <1>1, <1>2, <1>3, <1>4, <1>5, <1>6, <1>7, <1>8

\* Every step preserves the type (store/connection.py).
LEMMA StepTypeOK == TypeOK /\ [Next]_vars => TypeOK'
  <1> SUFFICES ASSUME TypeOK, [Next]_vars PROVE TypeOK'
    OBVIOUS
  <1>1. CASE UNCHANGED vars
    BY <1>1 DEF vars, TypeOK
  <1>2. CASE Next
    BY <1>2, QuietTypeOK, LockTypeOK DEF Next, Step
  <1> QED BY <1>1, <1>2

\* Every reachable state has its type, and the lock is held exactly between
\* taking it and giving it back, whichever exception is raised in between
\* (store/connection.py get_pool, close_pool).
THEOREM TypeCorrect == Spec => []TypeOK
  BY InitTypeOK, StepTypeOK, PTL DEF Spec

-----------------------------------------------------------------------------
\* Only a thread that holds the lock opens, closes or forgets a pool, so no two
\* of them are between these steps at the same time.
LEMMA StepOneOpenPool == Inv /\ TypeOK' /\ [Next]_vars => OneOpenPool' /\ ClosedBeforeForgotten'
  <1> SUFFICES ASSUME Inv, TypeOK', [Next]_vars PROVE OneOpenPool' /\ ClosedBeforeForgotten'
    OBVIOUS
  <1> USE DEF Inv, OneOpenPool, ClosedBeforeForgotten
  <1>1. CASE UNCHANGED vars
    BY <1>1 DEF vars, At
  <1>2. ASSUME NEW t \in Threads,
               \/ Call(t) \/ Look(t) \/ ReturnPool(t) \/ Borrow(t) \/ BorrowFails(t)
               \/ EndBody(t) \/ CallClose(t) \/ Acquire(t) \/ AcquireToClose(t)
               \/ BorrowForSchema(t) \/ EnsureSchema(t) \/ EnsureFails(t)
        PROVE  OneOpenPool' /\ ClosedBeforeForgotten'
    <2>1. UNCHANGED <<pool, open>>
      BY <1>2 DEF Call, Look, ReturnPool, Borrow, BorrowFails, EndBody, CallClose, Acquire,
                  AcquireToClose, BorrowForSchema, EnsureSchema, EnsureFails, Quiet
    <2>2. job'[t].pc # "reset"
      <3> USE DEF TypeOK, Goto, Become, Idle
      <3>1. CASE Look(t) BY <3>1 DEF Look
      <3>2. CASE AcquireToClose(t) BY <3>2 DEF AcquireToClose
      <3>3. CASE Call(t) \/ CallClose(t) \/ Acquire(t) BY <3>3 DEF Call, CallClose, Acquire
      <3>4. CASE ReturnPool(t) BY <3>4 DEF ReturnPool
      <3>5. CASE Borrow(t) BY <3>5 DEF Borrow
      <3>6. CASE BorrowFails(t) BY <3>6 DEF BorrowFails
      <3>7. CASE EndBody(t) BY <3>7 DEF EndBody
      <3>8. CASE BorrowForSchema(t) BY <3>8 DEF BorrowForSchema
      <3>9. CASE EnsureSchema(t) BY <3>9 DEF EnsureSchema
      <3>10. CASE EnsureFails(t) BY <3>10 DEF EnsureFails
      <3> QED BY <1>2, <3>1, <3>2, <3>3, <3>4, <3>5, <3>6, <3>7, <3>8, <3>9, <3>10
    <2>3. \A u \in Threads \ {t} : job'[u] = job[u]
      BY <1>2 DEF TypeOK, Call, Look, ReturnPool, Borrow, BorrowFails, EndBody, CallClose,
                  Acquire, AcquireToClose, BorrowForSchema, EnsureSchema, EnsureFails,
                  Goto, Become, Idle
    <2>4. \A u \in Threads : At(u, "reset")' => At(u, "reset")
      BY <2>2, <2>3 DEF At
    <2> QED BY <2>1, <2>4
  <1>3. ASSUME NEW t \in Threads, Recheck(t)
        PROVE  OneOpenPool' /\ ClosedBeforeForgotten'
    <2>1. \A u \in Threads : ~At(u, "reset")
      BY <1>3 DEF TypeOK, Recheck, At, Critical
    <2>2. \A u \in Threads : ~At(u, "reset")'
      BY <1>3, <2>1 DEF TypeOK, Recheck, At, Goto, Become
    <2>3. OneOpenPool'
      BY <1>3 DEF TypeOK, Recheck, None
    <2> QED BY <2>2, <2>3
  <1>4. ASSUME NEW t \in Threads, ClosePool(t)
        PROVE  OneOpenPool' /\ ClosedBeforeForgotten'
    BY <1>4 DEF ClosePool
  <1>5. ASSUME NEW t \in Threads, ResetPool(t)
        PROVE  OneOpenPool' /\ ClosedBeforeForgotten'
    <2>1. open = {} /\ open' = {}
      BY <1>5 DEF ResetPool
    <2> QED BY <2>1
  <1> QED BY <1>1, <1>2, <1>3, <1>4, <1>5 DEF Next, Step

\* Init satisfies the invariant: nothing is open.
LEMMA InitInv == Init => Inv
  BY InitTypeOK DEF Init, Inv, OneOpenPool, ClosedBeforeForgotten, At, Idle, None

\* The invariant is inductive.
LEMMA StepInv == Inv /\ [Next]_vars => Inv'
  BY StepTypeOK, StepOneOpenPool DEF Inv

\* Whatever threads get and close, and however the database fails, the only pool
\* that is open is the one in _pool, where close_pool finds it
\* (store/connection.py get_pool, close_pool).
THEOREM OnePool == Spec => []OneOpenPool
  <1>1. Inv => OneOpenPool
    BY DEF Inv
  <1> QED BY <1>1, InitInv, StepInv, PTL DEF Spec

-----------------------------------------------------------------------------
\* A pool that is published without its schema has its creator at work on it,
\* and that one ends with the schema or with a failure.
LEMMA StepPublished ==
    TypeOK /\ PublishedHasSchema /\ [Next]_vars => PublishedHasSchema'
  <1> SUFFICES ASSUME TypeOK, PublishedHasSchema, [Next]_vars PROVE PublishedHasSchema'
    OBVIOUS
  <1> USE DEF PublishedHasSchema
  <1>1. CASE UNCHANGED vars
    BY <1>1 DEF vars
  <1>2. ASSUME NEW t \in Threads,
               \/ Call(t) \/ Look(t) \/ ReturnPool(t) \/ Borrow(t) \/ BorrowFails(t)
               \/ EndBody(t) \/ CallClose(t) \/ Acquire(t) \/ AcquireToClose(t)
               \/ BorrowForSchema(t) \/ ClosePool(t)
        PROVE  PublishedHasSchema'
    <2>1. /\ UNCHANGED <<pool, failed, schema>>
          /\ \A u \in Threads : job[u].pc \in {"ensure", "commit"}
                                => job'[u].pc \in {"ensure", "commit"}
      BY <1>2 DEF TypeOK, Call, Look, ReturnPool, Borrow, BorrowFails, EndBody, CallClose,
                  Acquire, AcquireToClose, BorrowForSchema, ClosePool,
                  Quiet, At, Goto, Become, Idle
    <2> QED BY <2>1
  <1>3. ASSUME NEW t \in Threads, Recheck(t)
        PROVE  PublishedHasSchema'
    <2>1. CASE pool # None
      <3>1. /\ UNCHANGED <<pool, failed, schema>>
            /\ \A u \in Threads : job[u].pc \in {"ensure", "commit"}
                                  => job'[u].pc \in {"ensure", "commit"}
        BY <1>3, <2>1 DEF TypeOK, Recheck, At, Goto, Become
      <3> QED BY <3>1
    <2>2. CASE pool = None
      <3>1. job'[t].pc = "ensure"
        BY <1>3, <2>2 DEF TypeOK, Recheck, At, Goto, Become
      <3> QED BY <3>1
    <2> QED BY <2>1, <2>2
  <1>4. ASSUME NEW t \in Threads, EnsureSchema(t) \/ EnsureFails(t) \/ ResetPool(t)
        PROVE  PublishedHasSchema'
    BY <1>4 DEF EnsureSchema, EnsureFails, ResetPool
  <1> QED BY <1>1, <1>2, <1>3, <1>4 DEF Next, Step

\* As long as creating the schema never failed, a pool that is published while
\* nobody is at work on it has its schema (store/connection.py get_pool).
THEOREM SchemaBehindPool == Spec => []PublishedHasSchema
  <1>1. Init => TypeOK /\ PublishedHasSchema
    BY InitTypeOK DEF Init, PublishedHasSchema
  <1>2. TypeOK /\ PublishedHasSchema /\ [Next]_vars => (TypeOK /\ PublishedHasSchema)'
    BY StepTypeOK, StepPublished
  <1> QED BY <1>1, <1>2, PTL DEF Spec

=============================================================================
