--------------------------- MODULE JsonStore_proofs ---------------------------
(***************************************************************************)
(* What a JSON store keeps, for any calls and readers: no read is shared   *)
(* after it ended, a mutation that failed leaves no trace, and in a store  *)
(* that is read from its file no mutation undoes another.                  *)
(***************************************************************************)
EXTENDS JsonStore, TLAPS

(* A direct store shares no read. *)
DirectAlone ==
  kind = "direct" => inflight = None /\ \A c \in Clients : pc[c] # "joined"
TypeInv == TypeOK /\ DirectAlone

LEMMA Names == None \notin Clients /\ Calls \subseteq Clients /\ Readers \subseteq Clients
BY StoreAssumption DEF Clients

LEMMA ErrTyped == ASSUME TypeOK, Err PROVE errors' \in 0..MaxErrors
BY StoreAssumption DEF TypeOK, Err

-----------------------------------------------------------------------------
(* Types *)

LEMMA InitType == Init => TypeInv
<1> SUFFICES ASSUME Init PROVE TypeInv
  OBVIOUS
<1>1. /\ file \in Content /\ got \in [Clients -> Content]
      /\ pc = [c \in Clients |-> "idle"] /\ joined = [c \in Clients |-> None]
  BY DEF Init, Content, Empty
<1>2. last = None /\ prev = [m \in Calls |-> None] /\ released = {} /\ committed = {}
  BY DEF Init
<1>3. kind \in Kinds /\ errors \in 0..MaxErrors
  BY StoreAssumption DEF Init
<1>4. cache = None /\ inflight = None /\ misread \in BOOLEAN
  BY DEF Init
<1>5. pc \in [Clients -> {"idle", "queued", "read", "open", "loaded", "uncached",
                         "joined", "have", "write", "prime", "done", "failed"}]
  BY <1>1
<1>6. joined \in [Clients -> Clients \cup {None}] /\ prev \in [Calls -> Calls \cup {None}]
  BY <1>1, <1>2
<1>7. \A c \in Clients : pc[c] # "joined"
  BY <1>1
<1> QED
  BY <1>1, <1>2, <1>3, <1>4, <1>5, <1>6, <1>7 DEF TypeInv, TypeOK, DirectAlone

LEMMA CallType == ASSUME TypeInv, NEW m \in Calls, Call(m) PROVE TypeInv'
BY Names DEF Call, TypeInv, TypeOK, DirectAlone, Reading

LEMMA CallStepType == ASSUME TypeInv, NEW m \in Calls, CallStep(m) PROVE TypeInv'
<1> USE Names
<1>1. CASE Turn(m)
  BY <1>1 DEF Turn, queueVars, TypeInv, TypeOK, DirectAlone, Reading
<1>2. CASE Callback(m)
  BY <1>2 DEF Callback, CacheAfterCallback, queueVars, TypeInv, TypeOK, DirectAlone, Reading, Content
<1>3. CASE Fails(m)
  BY <1>3, ErrTyped DEF Fails, Return, AfterCalls, TypeInv, TypeOK, DirectAlone, Reading
<1>4. CASE Rename(m)
  BY <1>4 DEF Rename, queueVars, TypeInv, TypeOK, DirectAlone, Reading
<1>5. CASE PrimeAndReturn(m)
  BY <1>5 DEF PrimeAndReturn, Return, AfterCalls, TypeInv, TypeOK, DirectAlone, Reading
<1> QED
  BY <1>1, <1>2, <1>3, <1>4, <1>5 DEF CallStep

(* The end of a read, with its value: whoever shares it has one, and nobody shares it
   any more. *)
LEMMA SettledType ==
  ASSUME TypeInv, NEW c \in Clients, pc[c] \in {"loaded", "uncached"}, Settled(c),
         inflight' = IF kind = "direct" THEN inflight ELSE None
  PROVE  /\ got' \in [Clients -> Content]
         /\ joined' \in [Clients -> Clients \cup {None}]
         /\ pc' \in [Clients -> {"idle", "queued", "read", "open", "loaded", "uncached",
                                 "joined", "have", "write", "prime", "done", "failed"}]
         /\ inflight' = None
         /\ \A d \in Clients : pc'[d] = "joined" =>
              pc[d] = "joined" /\ joined'[d] # None /\ pc'[joined'[d]] \in Reading
<1>1. /\ got \in [Clients -> Content] /\ joined \in [Clients -> Clients \cup {None}]
      /\ \A d \in Clients : pc[d] = "joined" => joined[d] # None /\ pc[joined[d]] \in Reading
      /\ kind = "direct" => inflight = None
  BY DEF TypeInv, TypeOK, DirectAlone
<1>2. got' \in [Clients -> Content] /\ joined' \in [Clients -> Clients \cup {None}]
  BY <1>1 DEF Settled
<1>3. pc' \in [Clients -> {"idle", "queued", "read", "open", "loaded", "uncached",
                           "joined", "have", "write", "prime", "done", "failed"}]
  BY DEF Settled, TypeInv, TypeOK
<1>4. ASSUME NEW d \in Clients, pc'[d] = "joined"
      PROVE  pc[d] = "joined" /\ joined'[d] # None /\ pc'[joined'[d]] \in Reading
  <2>1. d \notin Sharing(c) /\ pc[d] = "joined" /\ joined'[d] = joined[d]
    BY <1>4 DEF Settled
  <2>2. joined[d] \in Clients /\ joined[d] # c /\ pc[joined[d]] \in Reading
    BY <1>1, <2>1 DEF Sharing
  <2>3. joined[d] \notin Sharing(c)
    BY <2>2 DEF Sharing, Reading
  <2> QED
    BY <2>1, <2>2, <2>3, Names DEF Settled
<1> QED
  BY <1>1, <1>2, <1>3, <1>4

LEMMA ReadStepType == ASSUME TypeInv, NEW c \in Clients, ReadStep(c) PROVE TypeInv'
<1> USE Names
<1>1. CASE Hit(c)
  BY <1>1 DEF Hit, HasEntry, queueVars, TypeInv, TypeOK, DirectAlone, Reading
<1>2. CASE Join(c)
  BY <1>2 DEF Join, HasEntry, queueVars, TypeInv, TypeOK, DirectAlone, Reading
<1>3. CASE Miss(c)
  BY <1>3 DEF Miss, HasEntry, queueVars, TypeInv, TypeOK, DirectAlone, Reading
<1>4. CASE Load(c)
  BY <1>4 DEF Load, queueVars, TypeInv, TypeOK, DirectAlone, Reading
<1>5. CASE LoadFails(c)
  BY <1>5, ErrTyped DEF LoadFails, queueVars, TypeInv, TypeOK, DirectAlone, Reading, Content, Empty
<1>6. CASE Settle(c)
  <2>1. /\ pc[c] = "loaded" /\ Settled(c)
        /\ inflight' = IF kind = "direct" THEN inflight ELSE None
        /\ cache' = IF kind = "direct" THEN cache ELSE got[c]
        /\ UNCHANGED <<kind, file, queueVars, errors, misread>>
    BY <1>6 DEF Settle, InflightAfterRead
  <2>2. cache' \in Content \cup {None}
    BY <2>1 DEF TypeInv, TypeOK
  <2> QED
    BY <2>1, <2>2, SettledType DEF queueVars, TypeInv, TypeOK, DirectAlone
<1>7. CASE SettleFailed(c) /\ kind # "closed"
  <2>1. /\ pc[c] = "uncached" /\ Settled(c)
        /\ inflight' = IF kind = "direct" THEN inflight ELSE None
        /\ UNCHANGED <<kind, file, cache, queueVars, errors, misread>>
    BY <1>7 DEF SettleFailed, InflightAfterRead
  <2> QED
    BY <2>1, SettledType DEF queueVars, TypeInv, TypeOK, DirectAlone
<1>8. CASE SettleFailed(c) /\ kind = "closed"
  <2>1. /\ pc[c] = "uncached" /\ inflight' = None
        /\ pc' = [d \in Clients |-> IF d \notin Sharing(c) THEN pc[d]
                                    ELSE IF d \in Readers THEN "idle" ELSE "failed"]
        /\ joined' = [d \in Clients |-> IF d \in Sharing(c) THEN None ELSE joined[d]]
        /\ released' = released \cup (Sharing(c) \cap Calls)
        /\ UNCHANGED <<kind, file, cache, got, last, prev, committed, errors, misread>>
    BY <1>8 DEF SettleFailed, InflightAfterRead, AfterCalls
  <2>2. ASSUME NEW d \in Clients, pc'[d] = "joined"
        PROVE  joined'[d] # None /\ pc'[joined'[d]] \in Reading
    <3>1. d \notin Sharing(c) /\ pc[d] = "joined" /\ joined'[d] = joined[d]
      BY <2>1, <2>2
    <3>2. joined[d] \in Clients /\ joined[d] # c /\ pc[joined[d]] \in Reading
      BY <3>1 DEF Sharing, TypeInv, TypeOK
    <3>3. joined[d] \notin Sharing(c)
      BY <3>2 DEF Sharing, Reading
    <3> QED
      BY <2>1, <3>1, <3>2, <3>3
  <2>3. pc' \in [Clients -> {"idle", "queued", "read", "open", "loaded", "uncached",
                             "joined", "have", "write", "prime", "done", "failed"}]
    BY <2>1 DEF TypeInv, TypeOK
  <2>4. joined' \in [Clients -> Clients \cup {None}]
    BY <2>1 DEF TypeInv, TypeOK
  <2> QED
    BY <1>8, <2>1, <2>2, <2>3, <2>4 DEF TypeInv, TypeOK, DirectAlone
<1> QED
  BY <1>1, <1>2, <1>3, <1>4, <1>5, <1>6, <1>7, <1>8 DEF ReadStep

LEMMA NextType == TypeInv /\ [Next]_vars => TypeInv'
<1> SUFFICES ASSUME TypeInv, [Next]_vars PROVE TypeInv'
  OBVIOUS
<1>1. ASSUME NEW r \in Readers, StartRead(r) \/ EndRead(r) PROVE TypeInv'
  BY <1>1, Names DEF StartRead, EndRead, queueVars, TypeInv, TypeOK, DirectAlone, Reading,
                     Content, Empty
<1>2. CASE Expire
  BY <1>2 DEF Expire, queueVars, TypeInv, TypeOK, DirectAlone
<1>3. CASE UNCHANGED vars
  BY <1>3 DEF vars, TypeInv, TypeOK, DirectAlone
<1> QED
  BY <1>1, <1>2, <1>3, CallType, CallStepType, ReadStepType DEF Next

LEMMA AlwaysType == Spec => []TypeInv
BY InitType, NextType, PTL DEF Spec

(* A store stays typed, and whoever waits for another client's read waits for one that
   is running. *)
THEOREM TypeCorrect == Spec => []TypeOK
BY AlwaysType, PTL DEF TypeInv

-----------------------------------------------------------------------------
(* Failed mutations *)

(* What is read, cached or stored tells of mutations that were written; a call alone
   knows of its own before that. *)
WrittenOnly ==
  \A m \in Calls :
    /\ m \in file \/ (cache # None /\ m \in cache) \/ (\E c \in Clients \ {m} : m \in got[c])
         => pc[m] \in {"prime", "done"}
    /\ m \in got[m] => pc[m] \in {"write", "prime", "done", "failed"}

LEMMA InitWritten == Init => WrittenOnly
BY DEF Init, WrittenOnly, Empty, Clients

(* A call keeps its place unless it takes part in the step. *)
LEMMA CallWritten ==
  ASSUME TypeInv, WrittenOnly, NEW m \in Calls, Call(m) \/ CallStep(m)
  PROVE  WrittenOnly'
<1> USE Names
<1>1. CASE Call(m)
  BY <1>1 DEF Call, WrittenOnly, TypeInv, TypeOK
<1>2. CASE Turn(m)
  BY <1>2 DEF Turn, WrittenOnly, TypeInv, TypeOK
<1>3. CASE Callback(m)
  <2>1. /\ pc[m] = "have" /\ pc' = [pc EXCEPT ![m] = "write"]
        /\ got' = [got EXCEPT ![m] = @ \cup {m}] /\ UNCHANGED <<file, cache>>
    BY <1>3 DEF Callback, CacheAfterCallback
  <2> QED
    BY <2>1 DEF WrittenOnly, TypeInv, TypeOK
<1>4. CASE Fails(m)
  BY <1>4 DEF Fails, WrittenOnly, TypeInv, TypeOK
<1>5. CASE Rename(m)
  BY <1>5 DEF Rename, WrittenOnly, TypeInv, TypeOK
<1>6. CASE PrimeAndReturn(m)
  BY <1>6 DEF PrimeAndReturn, WrittenOnly, TypeInv, TypeOK
<1> QED
  BY <1>1, <1>2, <1>3, <1>4, <1>5, <1>6 DEF CallStep

LEMMA SettledWritten ==
  ASSUME TypeInv, WrittenOnly, NEW c \in Clients, pc[c] \in {"loaded", "uncached"}, Settled(c),
         UNCHANGED file, cache' \in {cache, got[c]}
  PROVE  WrittenOnly'
<1>1. \A m \in Calls : m \in got[c] => pc[m] \in {"prime", "done"} /\ m \notin Sharing(c)
  BY Names DEF WrittenOnly, Sharing
<1>2. \A m \in Calls : pc[m] \in {"prime", "done"} => pc'[m] = pc[m]
  BY Names DEF Settled, Sharing
<1>3. ASSUME NEW m \in Calls, m \in file \/ (cache' # None /\ m \in cache')
      PROVE  pc'[m] \in {"prime", "done"}
  BY <1>1, <1>2, <1>3 DEF WrittenOnly
<1>4. ASSUME NEW m \in Calls, NEW d \in Clients \ {m}, m \in got'[d]
      PROVE  pc'[m] \in {"prime", "done"}
  <2>1. m \in got[c] \/ m \in got[d]
    BY <1>4 DEF Settled
  <2> QED
    BY <1>1, <1>2, <2>1 DEF WrittenOnly
<1>5. ASSUME NEW m \in Calls, m \in got'[m]
      PROVE  pc'[m] \in {"write", "prime", "done", "failed"}
  <2>1. CASE m \in Sharing(c)
    BY <1>1, <1>5, <2>1, Names DEF Settled
  <2>2. CASE m \notin Sharing(c)
    BY <1>5, <2>2, Names DEF Settled, WrittenOnly
  <2> QED
    BY <2>1, <2>2
<1> QED
  BY <1>3, <1>4, <1>5 DEF WrittenOnly

LEMMA ReadWritten ==
  ASSUME TypeInv, WrittenOnly, NEW c \in Clients, ReadStep(c)
  PROVE  WrittenOnly'
<1> USE Names
<1>1. CASE Hit(c)
  <2>1. /\ pc[c] = "read" /\ cache # None /\ pc' = [pc EXCEPT ![c] = "have"]
        /\ got' = [got EXCEPT ![c] = cache] /\ UNCHANGED <<file, cache>>
    BY <1>1 DEF Hit, HasEntry
  <2> QED
    BY <2>1 DEF WrittenOnly, TypeInv, TypeOK
<1>2. CASE Join(c)
  BY <1>2 DEF Join, WrittenOnly, TypeInv, TypeOK
<1>3. CASE Miss(c)
  BY <1>3 DEF Miss, WrittenOnly, TypeInv, TypeOK
<1>4. CASE Load(c)
  BY <1>4 DEF Load, WrittenOnly, TypeInv, TypeOK
<1>5. CASE LoadFails(c)
  BY <1>5 DEF LoadFails, Empty, WrittenOnly, TypeInv, TypeOK
<1>6. CASE Settle(c)
  <2>1. pc[c] = "loaded" /\ Settled(c) /\ UNCHANGED file /\ cache' \in {cache, got[c]}
    BY <1>6 DEF Settle
  <2> QED
    BY <2>1, SettledWritten
<1>7. CASE SettleFailed(c) /\ kind # "closed"
  <2>1. pc[c] = "uncached" /\ Settled(c) /\ UNCHANGED <<file, cache>>
    BY <1>7 DEF SettleFailed
  <2> QED
    BY <2>1, SettledWritten
<1>8. CASE SettleFailed(c) /\ kind = "closed"
  <2>1. /\ pc[c] = "uncached" /\ UNCHANGED <<file, cache, got>>
        /\ \A d \in Clients : pc'[d] # pc[d] =>
             d \in Sharing(c) /\ (d \notin Readers => pc'[d] = "failed")
    BY <1>8 DEF SettleFailed
  <2>2. \A d \in Clients : pc[d] \in {"prime", "done"} => pc'[d] = pc[d]
    BY <2>1 DEF Sharing
  <2>3. \A m \in Calls : pc'[m] = pc[m] \/ pc'[m] = "failed"
    BY <2>1, StoreAssumption
  <2> QED
    BY <2>1, <2>2, <2>3 DEF WrittenOnly
<1> QED
  BY <1>1, <1>2, <1>3, <1>4, <1>5, <1>6, <1>7, <1>8 DEF ReadStep

LEMMA NextWritten == TypeInv /\ WrittenOnly /\ [Next]_vars => WrittenOnly'
<1> SUFFICES ASSUME TypeInv, WrittenOnly, [Next]_vars PROVE WrittenOnly'
  OBVIOUS
<1>1. ASSUME NEW r \in Readers, StartRead(r) \/ EndRead(r) PROVE WrittenOnly'
  <2>1. /\ UNCHANGED <<file, cache>>
        /\ \A m \in Calls : pc'[m] = pc[m]
        /\ \A c \in Clients : got'[c] = got[c] \/ got'[c] = {}
    BY <1>1, Names, StoreAssumption DEF StartRead, EndRead, Empty, TypeInv, TypeOK
  <2> QED
    BY <2>1, Names DEF WrittenOnly
<1>2. CASE Expire
  BY <1>2 DEF Expire, WrittenOnly
<1>3. CASE UNCHANGED vars
  BY <1>3 DEF vars, WrittenOnly
<1> QED
  BY <1>1, <1>2, <1>3, CallWritten, ReadWritten DEF Next

(* In a store of any kind, a mutation that failed is not in the file and in nothing any
   other client reads, whatever reads fail, join and prime the cache meanwhile. *)
THEOREM FailedLeaveNoTrace == Spec => []FailedInvisible
<1>1. WrittenOnly => FailedInvisible
  BY DEF WrittenOnly, FailedInvisible
<1> QED
  BY <1>1, InitWritten, NextWritten, AlwaysType, PTL DEF Spec

-----------------------------------------------------------------------------
(* The queue *)

Over == {"done", "failed"}
Called == {m \in Calls : pc[m] # "idle"}
Busy(m) == pc[m] \notin {"idle", "queued"} \cup Over

(* The calls stand in a line of n places, f being the place of each.  Those of the
   first h places are over; a call whose turn it is stands at place h. *)
Line(f, h, n) ==
  /\ h <= n
  /\ \A m \in Called : f[m] < n
  /\ \A m, k \in Called : f[m] = f[k] => m = k
  /\ IF n = 0 THEN last = None ELSE last \in Called /\ f[last] = n - 1
  /\ \A m \in Called :
       IF f[m] = 0 THEN prev[m] = None ELSE prev[m] \in Called /\ f[prev[m]] = f[m] - 1
  /\ \A m \in Called : m \in released <=> f[m] < h
  /\ \A m \in Called : m \in released <=> pc[m] \in Over
  /\ \A m \in Called : Busy(m) => f[m] = h
  /\ released \subseteq Called

Queue == \E f \in [Calls -> Nat], h, n \in Nat : Line(f, h, n)

(* No call's work begins before the work of the one before it is over. *)
LEMMA OneBusy ==
  ASSUME Queue, NEW m \in Calls, NEW k \in Calls, Busy(m), Busy(k)
  PROVE  m = k
BY DEF Queue, Line, Called, Busy

LEMMA InitQueue == Init => Queue
<1> SUFFICES ASSUME Init PROVE Queue
  OBVIOUS
<1>1. Called = {} /\ last = None /\ released = {}
  BY Names DEF Init, Called
<1>2. Line([m \in Calls |-> 0], 0, 0)
  BY <1>1 DEF Line
<1> QED
  BY <1>2 DEF Queue

LEMMA CallQueue ==
  ASSUME TypeInv, Queue, NEW m \in Calls, Call(m)
  PROVE  Queue'
<1>1. PICK f \in [Calls -> Nat], h \in Nat, n \in Nat : Line(f, h, n)
  BY DEF Queue
<1>2. /\ m \notin Called /\ pc' = [pc EXCEPT ![m] = "queued"]
      /\ prev' = [prev EXCEPT ![m] = last] /\ last' = m /\ UNCHANGED released
  BY DEF Call, Called
<1>3. Called' = Called \cup {m}
  BY <1>2, Names DEF Called, TypeInv, TypeOK
<1>4. /\ pc'[m] = "queued" /\ prev'[m] = last
      /\ \A k \in Called : pc'[k] = pc[k] /\ prev'[k] = prev[k] /\ k # m
  BY <1>2, Names DEF Called, TypeInv, TypeOK
<1> DEFINE g == [f EXCEPT ![m] = n]
<1>5. g \in [Calls -> Nat] /\ g[m] = n /\ \A k \in Called : g[k] = f[k] /\ f[k] \in Nat
  BY <1>2 DEF Called
<1>6. m \notin released
  BY <1>1, <1>2 DEF Line
<1> HIDE DEF g
<1>7. \A k \in Called' : g[k] < n + 1
  BY <1>1, <1>3, <1>5 DEF Line
<1>8. \A j, k \in Called' : g[j] = g[k] => j = k
  BY <1>1, <1>3, <1>5 DEF Line
<1>9. last' \in Called' /\ g[last'] = (n + 1) - 1
  BY <1>2, <1>3, <1>5
<1>10. \A k \in Called' : IF g[k] = 0 THEN prev'[k] = None
                          ELSE prev'[k] \in Called' /\ g[prev'[k]] = g[k] - 1
  BY <1>1, <1>3, <1>4, <1>5 DEF Line
<1>11. \A k \in Called' : k \in released' <=> g[k] < h
  BY <1>1, <1>2, <1>3, <1>5, <1>6 DEF Line
<1>12. \A k \in Called' : k \in released' <=> pc'[k] \in Over
  BY <1>1, <1>2, <1>3, <1>4, <1>6 DEF Line, Over
<1>13. \A k \in Called' : Busy(k)' => g[k] = h
  BY <1>1, <1>3, <1>4, <1>5 DEF Line, Busy
<1>14. h <= n + 1 /\ n + 1 # 0 /\ n + 1 \in Nat
  BY <1>1 DEF Line
<1>15. Line(g, h, n + 1)'
  BY <1>1, <1>2, <1>3, <1>7, <1>8, <1>9, <1>10, <1>11, <1>12, <1>13, <1>14 DEF Line
<1> QED
  BY <1>5, <1>14, <1>15 DEF Queue

LEMMA TurnQueue ==
  ASSUME TypeInv, Queue, NEW m \in Calls, Turn(m)
  PROVE  Queue'
<1>1. PICK f \in [Calls -> Nat], h \in Nat, n \in Nat : Line(f, h, n)
  BY DEF Queue
<1>2. /\ m \in Called /\ pc[m] = "queued" /\ pc' = [pc EXCEPT ![m] = "read"]
      /\ prev[m] = None \/ prev[m] \in released
      /\ UNCHANGED <<last, prev, released>>
  BY DEF Turn, MyTurn, queueVars, Called
<1>3. /\ Called' = Called /\ pc'[m] = "read"
      /\ \A k \in Called : k # m => pc'[k] = pc[k]
  BY <1>2, Names DEF Called, TypeInv, TypeOK
<1>4. m \notin released /\ f[m] \in Nat /\ f[m] >= h
  BY <1>1, <1>2 DEF Line, Over
<1>5. f[m] = h
  <2>1. CASE f[m] = 0
    BY <1>4, <2>1
  <2>2. CASE f[m] # 0
    <3>1. prev[m] \in Called /\ f[prev[m]] = f[m] - 1
      BY <1>1, <1>2, <2>2 DEF Line
    <3>2. prev[m] \in released
      BY <1>2, <3>1, Names DEF Called
    <3> QED
      BY <1>1, <1>4, <3>1, <3>2 DEF Line
  <2> QED
    BY <2>1, <2>2
<1>6. \A k \in Called' : Busy(k)' => f[k] = h
  BY <1>1, <1>3, <1>5 DEF Line, Busy
<1>7. \A k \in Called' : k \in released' <=> pc'[k] \in Over
  BY <1>1, <1>2, <1>3, <1>4 DEF Line, Over
<1>8. Line(f, h, n)'
  BY <1>1, <1>2, <1>3, <1>6, <1>7 DEF Line
<1> QED
  BY <1>8 DEF Queue

(* A call that is over lets the one behind it go. *)
LEMMA ReturnQueue ==
  ASSUME TypeInv, Queue, NEW m \in Calls, Busy(m), NEW s \in Over,
         pc' = [pc EXCEPT ![m] = s], NEW ok, Return(m, ok)
  PROVE  Queue'
<1>1. PICK f \in [Calls -> Nat], h \in Nat, n \in Nat : Line(f, h, n)
  BY DEF Queue
<1>2. m \in Called /\ released' = released \cup {m} /\ UNCHANGED <<last, prev>>
  BY DEF Return, AfterCalls, Called, Busy
<1>3. /\ Called' = Called /\ pc'[m] = s
      /\ \A k \in Called : k # m => pc'[k] = pc[k]
  BY <1>2, Names DEF Called, TypeInv, TypeOK, Over
<1>4. f[m] = h /\ h < n
  BY <1>1, <1>2 DEF Line
<1>5. \A k \in Called : f[k] \in Nat /\ (f[k] = h => k = m)
  BY <1>1, <1>2, <1>4 DEF Line, Called
<1>6. \A k \in Called' : k \in released' <=> f[k] < h + 1
  BY <1>1, <1>2, <1>3, <1>4, <1>5 DEF Line
<1>7. \A k \in Called' : k \in released' <=> pc'[k] \in Over
  BY <1>1, <1>2, <1>3 DEF Line
<1>8. \A k \in Called' : ~Busy(k)'
  BY <1>1, <1>3, <1>5 DEF Line, Busy
<1>9. Line(f, h + 1, n)'
  BY <1>1, <1>2, <1>3, <1>4, <1>6, <1>7, <1>8 DEF Line
<1> QED
  BY <1>9 DEF Queue

LEMMA SameQueue ==
  ASSUME Queue, UNCHANGED <<last, prev, released>>,
         \A m \in Calls : /\ pc'[m] = "idle" <=> pc[m] = "idle"
                          /\ pc'[m] \in Over <=> pc[m] \in Over
                          /\ Busy(m)' => Busy(m)
  PROVE  Queue'
<1>1. PICK f \in [Calls -> Nat], h \in Nat, n \in Nat : Line(f, h, n)
  BY DEF Queue
<1>2. Called' = Called /\ Called \subseteq Calls
  BY DEF Called
<1>3. Line(f, h, n)'
  BY <1>1, <1>2 DEF Line
<1> QED
  BY <1>3 DEF Queue

-----------------------------------------------------------------------------
(* Direct stores *)

(* Between reading and writing, a call has the file as it is. *)
CurrentCopy ==
  /\ committed \subseteq file
  /\ \A m \in Calls :
       /\ pc[m] # "uncached"
       /\ pc[m] \in {"loaded", "have"} => got[m] = file
       /\ pc[m] = "write" => got[m] = file \cup {m}
       /\ pc[m] = "prime" => m \in file

DirectInv ==
  kind = "direct" => Queue /\ (~misread => CurrentCopy)

LEMMA InitDirect == Init => DirectInv
<1>1. Init => CurrentCopy
  BY Names DEF Init, CurrentCopy
<1> QED
  BY <1>1, InitQueue DEF DirectInv

LEMMA CallDirect ==
  ASSUME TypeInv, kind = "direct", Queue, ~misread => CurrentCopy,
         NEW m \in Calls, Call(m) \/ CallStep(m)
  PROVE  Queue' /\ (~misread' => CurrentCopy')
<1> USE Names
<1>1. CASE Call(m)
  BY <1>1, CallQueue DEF Call, CurrentCopy, TypeInv, TypeOK
<1>2. CASE Turn(m)
  BY <1>2, TurnQueue DEF Turn, queueVars, CurrentCopy, TypeInv, TypeOK
<1>3. CASE Callback(m)
  <2>1. /\ pc[m] = "have" /\ pc' = [pc EXCEPT ![m] = "write"]
        /\ got' = [got EXCEPT ![m] = @ \cup {m}]
        /\ UNCHANGED <<file, last, prev, released, committed, misread>>
    BY <1>3 DEF Callback, queueVars
  <2>2. Queue'
    BY <2>1, SameQueue DEF TypeInv, TypeOK, Busy, Over
  <2> QED
    BY <2>1, <2>2 DEF CurrentCopy, TypeInv, TypeOK
<1>4. CASE Fails(m)
  <2>1. Busy(m) /\ pc' = [pc EXCEPT ![m] = "failed"] /\ Return(m, FALSE)
    BY <1>4 DEF Fails, Busy, Over
  <2>2. UNCHANGED <<file, got, committed, misread>>
    BY <1>4, <2>1 DEF Fails, Return
  <2>3. Queue'
    BY <2>1, ReturnQueue DEF Over
  <2> QED
    BY <2>1, <2>2, <2>3 DEF CurrentCopy, TypeInv, TypeOK
<1>5. CASE Rename(m)
  <2>1. /\ pc[m] = "write" /\ pc' = [pc EXCEPT ![m] = "prime"] /\ file' = got[m]
        /\ UNCHANGED <<got, last, prev, released, committed, misread>>
    BY <1>5 DEF Rename, queueVars
  <2>2. Queue'
    BY <2>1, SameQueue DEF TypeInv, TypeOK, Busy, Over
  <2>3. \A k \in Calls : k # m => ~Busy(k)
    BY <2>1, OneBusy DEF Busy, Over
  <2>4. \A k \in Calls : k # m => pc'[k] \notin {"loaded", "have", "write", "prime", "uncached"}
    BY <2>1, <2>3 DEF Busy, Over, TypeInv, TypeOK
  <2>5. pc'[m] = "prime"
    BY <2>1 DEF TypeInv, TypeOK
  <2> QED
    BY <2>1, <2>2, <2>4, <2>5 DEF CurrentCopy
<1>6. CASE PrimeAndReturn(m)
  <2>1. /\ pc[m] = "prime" /\ Busy(m) /\ pc' = [pc EXCEPT ![m] = "done"] /\ Return(m, TRUE)
        /\ UNCHANGED <<file, got, misread>>
    BY <1>6 DEF PrimeAndReturn, Busy, Over
  <2>2. committed' = committed \cup {m}
    BY <2>1 DEF Return
  <2>3. Queue'
    BY <2>1, ReturnQueue DEF Over
  <2> QED
    BY <2>1, <2>2, <2>3 DEF CurrentCopy, TypeInv, TypeOK
<1> QED
  BY <1>1, <1>2, <1>3, <1>4, <1>5, <1>6 DEF CallStep

LEMMA ReadDirect ==
  ASSUME TypeInv, kind = "direct", Queue, ~misread => CurrentCopy,
         NEW c \in Clients, ReadStep(c)
  PROVE  Queue' /\ (~misread' => CurrentCopy')
<1> USE Names
<1>1. ~Hit(c) /\ ~Join(c)
  BY DEF Hit, Join
<1>2. CASE Miss(c)
  <2>1. /\ pc[c] = "read" /\ pc' = [pc EXCEPT ![c] = "open"]
        /\ UNCHANGED <<file, got, last, prev, released, committed, misread>>
    BY <1>2 DEF Miss, queueVars
  <2>2. Queue'
    BY <2>1, SameQueue DEF TypeInv, TypeOK, Busy, Over
  <2> QED
    BY <2>1, <2>2 DEF CurrentCopy, TypeInv, TypeOK
<1>3. CASE Load(c)
  <2>1. /\ pc[c] = "open" /\ pc' = [pc EXCEPT ![c] = "loaded"]
        /\ got' = [got EXCEPT ![c] = file]
        /\ UNCHANGED <<file, last, prev, released, committed, misread>>
    BY <1>3 DEF Load, queueVars
  <2>2. Queue'
    BY <2>1, SameQueue DEF TypeInv, TypeOK, Busy, Over
  <2> QED
    BY <2>1, <2>2 DEF CurrentCopy, TypeInv, TypeOK
<1>4. CASE LoadFails(c)
  <2>1. /\ pc[c] = "open" /\ pc' = [pc EXCEPT ![c] = "uncached"]
        /\ misread' /\ UNCHANGED <<last, prev, released>>
    BY <1>4 DEF LoadFails, queueVars
  <2>2. Queue'
    BY <2>1, SameQueue DEF TypeInv, TypeOK, Busy, Over
  <2> QED
    BY <2>1, <2>2
<1>5. CASE Settle(c) \/ SettleFailed(c)
  <2>1. /\ pc[c] \in {"loaded", "uncached"} /\ Settled(c)
        /\ UNCHANGED <<file, last, prev, released, committed, misread>>
    BY <1>5 DEF Settle, SettleFailed, queueVars
  <2>2. Sharing(c) = {c}
    BY DEF Sharing, TypeInv, DirectAlone
  <2>3. /\ got'[c] = got[c] /\ pc'[c] = "have"
        /\ \A d \in Clients : d # c => got'[d] = got[d] /\ pc'[d] = pc[d]
    BY <2>1, <2>2 DEF Settled
  <2>4. Queue'
    BY <2>1, <2>3, SameQueue DEF Busy, Over
  <2> QED
    BY <2>1, <2>3, <2>4 DEF CurrentCopy
<1> QED
  BY <1>1, <1>2, <1>3, <1>4, <1>5 DEF ReadStep

LEMMA NextDirect == TypeInv /\ DirectInv /\ [Next]_vars => DirectInv'
<1> SUFFICES ASSUME TypeInv, DirectInv, [Next]_vars, kind' = "direct"
             PROVE  Queue' /\ (~misread' => CurrentCopy')
  BY DEF DirectInv
<1>1. kind = "direct"
  BY DEF Next, Call, CallStep, Turn, Callback, Fails, Rename, PrimeAndReturn, ReadStep, Hit, Join,
         Miss, Load, LoadFails, Settle, SettleFailed, StartRead, EndRead, Expire, vars
<1>2. Queue /\ (~misread => CurrentCopy)
  BY <1>1 DEF DirectInv
<1>3. ASSUME NEW r \in Readers, StartRead(r) \/ EndRead(r)
      PROVE  Queue' /\ (~misread' => CurrentCopy')
  <2>1. /\ UNCHANGED <<file, last, prev, released, committed, misread>>
        /\ \A m \in Calls : pc'[m] = pc[m] /\ got'[m] = got[m]
    BY <1>3, Names, StoreAssumption DEF StartRead, EndRead, queueVars, TypeInv, TypeOK
  <2>2. Queue'
    BY <1>2, <2>1, SameQueue DEF Busy, Over
  <2> QED
    BY <1>2, <2>1, <2>2 DEF CurrentCopy
<1>4. CASE Expire \/ UNCHANGED vars
  <2>1. UNCHANGED <<file, pc, got, last, prev, released, committed, misread>>
    BY <1>4 DEF Expire, queueVars, vars
  <2>2. Queue'
    BY <1>2, <2>1, SameQueue DEF Busy, Over
  <2> QED
    BY <1>2, <2>1, <2>2 DEF CurrentCopy
<1> QED
  BY <1>1, <1>2, <1>3, <1>4, CallDirect, ReadDirect DEF Next

(* In a store read directly from its file, a mutation that returned stays in it, however
   many calls are queued, unless a read failed and was taken for an empty store. *)
THEOREM UpdatesKept == Spec => []NoLostUpdate
<1>1. DirectInv => NoLostUpdate
  BY DEF DirectInv, CurrentCopy, NoLostUpdate
<1> QED
  BY <1>1, InitDirect, NextDirect, AlwaysType, PTL DEF Spec
=============================================================================
