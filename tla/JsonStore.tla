------------------------------ MODULE JsonStore ------------------------------
(***************************************************************************)
(* One JSON store of Tainer (store-utils.ts): mutations queued by          *)
(* createStoreMutator, plain reads beside them, the read cache of          *)
(* readJsonFileCached with its shared in-flight read, and the atomic       *)
(* replacement of the file.  The file is abstracted to the set of          *)
(* mutations its content reflects, so a lost update is a missing member.   *)
(*                                                                         *)
(* Node runs one continuation at a time: an action is the code from one    *)
(* await to the next.                                                      *)
(***************************************************************************)
EXTENDS Naturals, FiniteSets

CONSTANTS
  Calls,       \* the calls of mutateStore of a behaviour: a bound
  Readers,     \* concurrent plain readers: a bound
  None,
  Kinds,       \* the kinds of store this instance checks
  MaxErrors    \* read errors, failed writes and throwing callbacks: a bound

ASSUME StoreAssumption ==
  /\ None \notin Calls \cup Readers
  /\ Calls \cap Readers = {}
  /\ Kinds \subseteq {"direct",    \* readStore reads the file and falls back on any error
                      "cached",    \* readJsonFileCached, falling back on any error
                      "closed"}    \* readJsonFileCached with failClosed
  /\ MaxErrors \in Nat

Clients == Calls \cup Readers
Content == SUBSET Calls
Empty == {}   \* fallback()

VARIABLES
  kind,       \* what kind of store this is
  file,       \* the file's content
  cache,      \* jsonFileCache's entry while it has not expired, or None
  inflight,   \* the client whose read jsonFileInflight shares, or None
  pc,         \* where each client is
  got,        \* the store (a clone) each client works on
  joined,     \* the read a client shares
  last,       \* the call whose promise is mutationQueue
  prev,       \* previousMutation of each call
  released,   \* the calls that called releaseQueue
  committed,  \* the calls that returned a result
  errors, misread   \* errors so far; whether a failed read was taken for an empty store

vars == <<kind, file, cache, inflight, pc, got, joined, last, prev, released, committed,
          errors, misread>>
queueVars == <<last, prev, released, committed>>

Reading == {"open", "loaded", "uncached"}

(* The type of the state, and that a read offered for sharing is still running: one
   that has ended would leave the clients that join it waiting. *)
TypeOK ==
  /\ kind \in Kinds
  /\ file \in Content
  /\ cache \in Content \cup {None}
  /\ inflight \in Clients \cup {None}
  /\ pc \in [Clients -> {"idle", "queued", "read", "open", "loaded", "uncached", "joined",
                         "have", "write", "prime", "done", "failed"}]
  /\ got \in [Clients -> Content]
  /\ joined \in [Clients -> Clients \cup {None}]
  /\ last \in Calls \cup {None}
  /\ prev \in [Calls -> Calls \cup {None}]
  /\ released \subseteq Calls /\ committed \subseteq Calls
  /\ errors \in 0..MaxErrors
  /\ misread \in BOOLEAN
  /\ inflight # None => pc[inflight] \in Reading
  /\ \A c \in Clients : pc[c] = "joined" => joined[c] # None /\ pc[joined[c]] \in Reading

Init ==
  /\ kind \in Kinds
  /\ file = Empty /\ cache = None /\ inflight = None
  /\ pc = [c \in Clients |-> "idle"]
  /\ got = [c \in Clients |-> Empty]
  /\ joined = [c \in Clients |-> None]
  /\ last = None /\ prev = [m \in Calls |-> None]
  /\ released = {} /\ committed = {}
  /\ errors = 0 /\ misread = FALSE

Err == errors < MaxErrors /\ errors' = errors + 1

-----------------------------------------------------------------------------
(* createStoreMutator *)

(* The call takes its place behind the promise that is last in the queue. *)
Call(m) ==
  /\ pc[m] = "idle"
  /\ prev' = [prev EXCEPT ![m] = last]
  /\ last' = m
  /\ pc' = [pc EXCEPT ![m] = "queued"]
  /\ UNCHANGED <<kind, file, cache, inflight, got, joined, released, committed, errors, misread>>

(* await previousMutation *)
MyTurn_AtOnce(m) == TRUE
MyTurn(m) == prev[m] = None \/ prev[m] \in released

Turn(m) ==
  /\ pc[m] = "queued" /\ MyTurn(m)
  /\ pc' = [pc EXCEPT ![m] = "read"]
  /\ UNCHANGED <<kind, file, cache, inflight, got, joined, queueVars, errors, misread>>

(* The finally: the queue goes on whether the call succeeded or not. *)
AfterCalls_OnSuccess(ms, ok) == IF ok THEN released \cup ms ELSE released
AfterCalls(ms, ok) == released \cup ms

Return(m, ok) ==
  /\ released' = AfterCalls({m}, ok)
  /\ committed' = IF ok THEN committed \cup {m} ELSE committed
  /\ UNCHANGED <<last, prev>>

(* The callback changes the clone the call got, never the value in the cache. *)
CacheAfterCallback_Shared(m) == IF cache = got[m] THEN got[m] \cup {m} ELSE cache
CacheAfterCallback(m) == cache

Callback(m) ==
  /\ pc[m] = "have"
  /\ got' = [got EXCEPT ![m] = @ \cup {m}]
  /\ cache' = CacheAfterCallback(m)
  /\ pc' = [pc EXCEPT ![m] = "write"]
  /\ UNCHANGED <<kind, file, inflight, joined, queueVars, errors, misread>>

(* The callback throws, or writeJsonFileAtomically errs before its rename. *)
Fails(m) ==
  /\ pc[m] \in {"have", "write"} /\ Err
  /\ pc' = [pc EXCEPT ![m] = "failed"]
  /\ Return(m, FALSE)
  /\ UNCHANGED <<kind, file, cache, inflight, got, joined, misread>>

(* rename *)
Rename(m) ==
  /\ pc[m] = "write"
  /\ file' = got[m]
  /\ pc' = [pc EXCEPT ![m] = "prime"]
  /\ UNCHANGED <<kind, cache, inflight, got, joined, queueVars, errors, misread>>

(* primeJsonFileCache, and the call returns. *)
PrimeAndReturn(m) ==
  /\ pc[m] = "prime"
  /\ cache' = got[m]
  /\ inflight' = None
  /\ pc' = [pc EXCEPT ![m] = "done"]
  /\ Return(m, TRUE)
  /\ UNCHANGED <<kind, file, got, joined, errors, misread>>

-----------------------------------------------------------------------------
(* readStore: readJsonFileCached, or a direct read of the file *)

StartRead(r) ==
  /\ r \in Readers /\ pc[r] = "idle"
  /\ pc' = [pc EXCEPT ![r] = "read"]
  /\ UNCHANGED <<kind, file, cache, inflight, got, joined, queueVars, errors, misread>>

(* The cache holds an entry that has not expired. *)
HasEntry == cache # None

Hit(c) ==
  /\ pc[c] = "read" /\ kind # "direct" /\ HasEntry
  /\ got' = [got EXCEPT ![c] = cache]
  /\ pc' = [pc EXCEPT ![c] = "have"]
  /\ UNCHANGED <<kind, file, cache, inflight, joined, queueVars, errors, misread>>

Join(c) ==
  /\ pc[c] = "read" /\ kind # "direct" /\ ~HasEntry /\ inflight # None
  /\ joined' = [joined EXCEPT ![c] = inflight]
  /\ pc' = [pc EXCEPT ![c] = "joined"]
  /\ UNCHANGED <<kind, file, cache, inflight, got, queueVars, errors, misread>>

Miss(c) ==
  /\ pc[c] = "read"
  /\ \/ kind = "direct" /\ UNCHANGED inflight
     \/ kind # "direct" /\ ~HasEntry /\ inflight = None /\ inflight' = c
  /\ pc' = [pc EXCEPT ![c] = "open"]
  /\ UNCHANGED <<kind, file, cache, got, joined, queueVars, errors, misread>>

(* readFile opens the file: it reads the content of that moment to the end, since a
   write replaces the file instead of changing it. *)
Load(c) ==
  /\ pc[c] = "open"
  /\ got' = [got EXCEPT ![c] = file]
  /\ pc' = [pc EXCEPT ![c] = "loaded"]
  /\ UNCHANGED <<kind, file, cache, inflight, joined, queueVars, errors, misread>>

(* Any other error than a missing file: the fallback, or with failClosed the error. *)
LoadFails(c) ==
  /\ pc[c] = "open" /\ Err
  /\ got' = [got EXCEPT ![c] = Empty]
  /\ pc' = [pc EXCEPT ![c] = "uncached"]
  /\ misread' = (misread \/ kind # "closed")
  /\ UNCHANGED <<kind, file, cache, inflight, joined, queueVars>>

(* The clients whose read this one is. *)
Sharing(c) == {c} \cup {d \in Clients : pc[d] = "joined" /\ joined[d] = c}

(* Every client that shares the read of c resumes with a clone of its value. *)
Settled(c) ==
  /\ got' = [d \in Clients |-> IF d \in Sharing(c) THEN got[c] ELSE got[d]]
  /\ joined' = [d \in Clients |-> IF d \in Sharing(c) THEN None ELSE joined[d]]
  /\ pc' = [d \in Clients |-> IF d \in Sharing(c) THEN "have" ELSE pc[d]]

(* The finally: a read that fails is not offered any more either. *)
InflightAfterRead_OnSuccess(ok) == IF ok THEN None ELSE inflight
InflightAfterRead(ok) == None

(* The value is put in the cache, whatever was written since the file was opened. *)
Settle(c) ==
  /\ pc[c] = "loaded"
  /\ Settled(c)
  /\ IF kind = "direct" THEN UNCHANGED <<cache, inflight>>
                        ELSE cache' = got[c] /\ inflight' = InflightAfterRead(TRUE)
  /\ UNCHANGED <<kind, file, queueVars, errors, misread>>

(* A failed read primes nothing; with failClosed every client that shares it fails. *)
SettleFailed(c) ==
  /\ pc[c] = "uncached"
  /\ IF kind = "closed"
       THEN /\ pc' = [d \in Clients |-> IF d \notin Sharing(c) THEN pc[d]
                                        ELSE IF d \in Readers THEN "idle" ELSE "failed"]
            /\ joined' = [d \in Clients |-> IF d \in Sharing(c) THEN None ELSE joined[d]]
            /\ released' = AfterCalls(Sharing(c) \cap Calls, FALSE)
            /\ UNCHANGED <<got, last, prev, committed>>
       ELSE Settled(c) /\ UNCHANGED queueVars
  /\ inflight' = IF kind = "direct" THEN inflight ELSE InflightAfterRead(FALSE)
  /\ UNCHANGED <<kind, file, cache, errors, misread>>

(* A plain reader is done with what it got. *)
EndRead(r) ==
  /\ r \in Readers /\ pc[r] = "have"
  /\ pc' = [pc EXCEPT ![r] = "idle"]
  /\ got' = [got EXCEPT ![r] = Empty]
  /\ UNCHANGED <<kind, file, cache, inflight, joined, queueVars, errors, misread>>

(* The entry expires ttlMs after it was primed. *)
MayExpire_Never == FALSE
MayExpire == cache # None

Expire ==
  /\ MayExpire
  /\ cache' = None
  /\ UNCHANGED <<kind, file, inflight, pc, got, joined, queueVars, errors, misread>>

-----------------------------------------------------------------------------
CallStep(m) ==
  Turn(m) \/ Callback(m) \/ Fails(m) \/ Rename(m) \/ PrimeAndReturn(m)

ReadStep(c) ==
  Hit(c) \/ Join(c) \/ Miss(c) \/ Load(c) \/ LoadFails(c) \/ Settle(c) \/ SettleFailed(c)

Next ==
  \/ \E m \in Calls : Call(m) \/ CallStep(m)
  \/ \E c \in Clients : ReadStep(c)
  \/ \E r \in Readers : StartRead(r) \/ EndRead(r)
  \/ Expire

Spec == Init /\ [][Next]_vars

(* Every continuation runs in the end, and the TTL passes. *)
FairSpec ==
  /\ Spec
  /\ \A m \in Calls : WF_vars(CallStep(m))
  /\ \A c \in Clients : WF_vars(ReadStep(c))
  /\ \A r \in Readers : WF_vars(EndRead(r))
  /\ WF_vars(Expire)

-----------------------------------------------------------------------------
(* Properties *)

(* In a store read directly from its file, no mutation that returned is undone by
   another one, as long as no read fails. *)
NoLostUpdate == kind = "direct" /\ ~misread => committed \subseteq file

(* A mutation that failed leaves no trace: not in the file, and not in what any later
   read returns from the cache. *)
FailedInvisible ==
  \A m \in Calls : pc[m] = "failed" =>
    /\ m \notin file /\ (cache # None => m \notin cache)
    /\ \A c \in Clients \ {m} : m \notin got[c]

(* A call that throws does not block the calls behind it. *)
EveryCallEnds == \A m \in Calls : pc[m] = "queued" ~> pc[m] \in {"done", "failed"}

(* A stale entry does not outlive its TTL: once the writing ends, reads return what is
   in the file. *)
CacheConverges == <>[](cache = None \/ cache = file)

(* The comment on the TTL: writes invalidate the cache, so it cannot serve stale data.
   Stated between writes, when no rename waits to prime the cache. *)
NeverStale ==
  kind # "direct" /\ (\A m \in Calls : pc[m] # "prime") => cache \in {None, file}
=============================================================================
