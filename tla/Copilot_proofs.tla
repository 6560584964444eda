--------------------------- MODULE Copilot_proofs ---------------------------
(***************************************************************************)
(* What the budget and the approvals of the assistant guarantee, for any   *)
(* number of requests beside each other, any budgets, limits and lifetimes *)
(* and any disturbances.                                                   *)
(***************************************************************************)
EXTENDS Copilot, FiniteSetTheorems, TLAPS

TurnPc == {"idle", "loop", "model", "tools", "record"}
ApprovalPc == {"idle", "check", "run", "charge"}

-----------------------------------------------------------------------------
(* Approvals *)

(* A card that was accepted is minted; until it expires its use is remembered, but for
   the uses that a restart forgot. *)
CardsInv ==
  /\ age \in [Cards -> 0..(Ttl + 1)] /\ uses \in [Cards -> Nat]
  /\ consumed \subseteq Cards
  /\ \A k \in Cards : uses[k] > 0 =>
       /\ age[k] # Ttl + 1
       /\ k \in forgotten \/ k \in consumed \/ age[k] = Ttl
  /\ ApprovedOnce

LEMMA CardsInit == Init => CardsInv
<1> SUFFICES ASSUME Init PROVE CardsInv
  OBVIOUS
<1>1. /\ age = [k \in Cards |-> Ttl + 1] /\ uses = [k \in Cards |-> 0]
      /\ consumed = {} /\ Ttl \in Nat
  BY Zenon, CopilotAssumption DEF Init
<1> QED
  BY <1>1 DEF CardsInv, ApprovedOnce

LEMMA CardsNext == CardsInv /\ [Next]_vars => CardsInv'
<1> SUFFICES ASSUME CardsInv, [Next]_vars PROVE CardsInv'
  OBVIOUS
<1> USE DEF CardsInv, ApprovedOnce
<1>0. Ttl \in Nat /\ Ttl > 0
  BY CopilotAssumption
<1>1. ASSUME UNCHANGED <<age, uses, consumed, forgotten>> PROVE CardsInv'
  BY <1>1
<1>2. CASE Time
  BY <1>0, <1>2 DEF Time, history
<1>3. CASE Restart
  BY <1>3 DEF Restart
<1>4. ASSUME NEW t \in Turns, Mint(t) PROVE CardsInv'
  <2>1. PICK k \in Cards : age[k] = Ttl + 1 /\ age' = [age EXCEPT ![k] = 0]
    BY <1>4 DEF Mint
  <2> QED
    BY <1>0, <1>4, <2>1 DEF Mint, history
<1>5. ASSUME NEW a \in Approvals, NEW k \in Cards, Accept(a, k) PROVE CardsInv'
  <2>1. uses[k] = 0 \/ k \in forgotten
    BY <1>0, <1>5 DEF Accept, Valid, Remembered
  <2> QED
    BY <1>0, <1>5, <2>1 DEF Accept, Remembered, Valid
<1>6. CASE ~Time /\ ~Restart /\ (\A t \in Turns : ~Mint(t))
           /\ (\A a \in Approvals, k \in Cards : ~Accept(a, k))
  <2>1. UNCHANGED <<age, uses, consumed, forgotten>>
    BY <1>6, ZenonT(60)
    DEF Next, vars, history, Midnight, Settings, Start, Loop, ModelAnswers, ModelFails, Call,
        Disconnect, Record, Check, Run, ChargeApproved
  <2> QED
    BY <1>1, <2>1
<1> QED
  BY <1>2, <1>3, <1>4, <1>5, <1>6

(* An approval is accepted at most once, for any lifetimes and however often the uses
   of expired ones are forgotten, but for what a restart forgot. *)
THEOREM ApprovalUsedOnce == Spec => []ApprovedOnce
<1>1. CardsInv => ApprovedOnce
  BY DEF CardsInv
<1> QED
  BY <1>1, CardsInit, CardsNext, PTL DEF Spec

-----------------------------------------------------------------------------
(* Sums.  What the requests hold of a budget, f[r] of request r and none of them more
   than B, is counted as a set of cells. *)

Cells(f, B) == {c \in Requests \X (1..B) : c[2] <= f[c[1]]}

LEMMA RequestsFinite == IsFiniteSet(Requests)
BY FS_Union, CopilotAssumption DEF Requests

LEMMA CellsFinite ==
  ASSUME NEW B \in Nat, NEW f
  PROVE  IsFiniteSet(Cells(f, B)) /\ Cardinality(Cells(f, B)) \in Nat
<1>1. IsFiniteSet(Requests \X (1..B))
  <2>1. IsFiniteSet(1..B)
    BY FS_Interval
  <2> QED
    BY <2>1, RequestsFinite, FS_Product, Zenon
<1> QED
  BY <1>1, FS_Subset, FS_CardinalityType DEF Cells

(* The cells of one request. *)
LEMMA ColumnSize ==
  ASSUME NEW r, NEW n \in Nat
  PROVE  IsFiniteSet({r} \X (1..n)) /\ Cardinality({r} \X (1..n)) = n
<1>1. IsFiniteSet({r}) /\ Cardinality({r}) = 1
  BY FS_Singleton
<1>2. IsFiniteSet(1..n) /\ Cardinality(1..n) = n
  BY FS_Interval
<1>3. /\ IsFiniteSet({r} \X (1..n))
      /\ Cardinality({r} \X (1..n)) = Cardinality({r}) * Cardinality(1..n)
  BY <1>1, <1>2, FS_Product, Zenon
<1> QED
  BY <1>1, <1>2, <1>3

(* Requests that hold no more than before hold no more together. *)
LEMMA CellsShrink ==
  ASSUME NEW B \in Nat, NEW f \in [Requests -> 0..B], NEW g \in [Requests -> 0..B],
         \A r \in Requests : g[r] <= f[r]
  PROVE  Cardinality(Cells(g, B)) <= Cardinality(Cells(f, B))
<1>1. Cells(g, B) \subseteq Cells(f, B)
  BY DEF Cells
<1> QED
  BY <1>1, CellsFinite, FS_Subset

(* A request that gives up what it holds lowers the sum by that much. *)
LEMMA CellsRelease ==
  ASSUME NEW B \in Nat, NEW f \in [Requests -> 0..B], NEW r \in Requests
  PROVE  LET g == [f EXCEPT ![r] = 0] IN
         Cardinality(Cells(g, B)) + f[r] = Cardinality(Cells(f, B))
<1> DEFINE g == [f EXCEPT ![r] = 0]
           own == {r} \X (1..f[r])
<1>1. Cells(f, B) = Cells(g, B) \cup own
  BY DEF Cells
<1>2. Cells(g, B) \cap own = {}
  BY DEF Cells
<1>3. IsFiniteSet(own) /\ Cardinality(own) = f[r]
  <2>1. f[r] \in Nat
    OBVIOUS
  <2> QED
    BY <2>1, ColumnSize, Zenon
<1>4. Cardinality(Cells(f, B)) = Cardinality(Cells(g, B)) + Cardinality(own) - Cardinality({})
  <2>1. IsFiniteSet(Cells(g, B))
    BY CellsFinite, Zenon
  <2>2. Cardinality(Cells(g, B) \cup own)
          = Cardinality(Cells(g, B)) + Cardinality(own) - Cardinality(Cells(g, B) \cap own)
    BY <1>3, <2>1, FS_Union, Zenon
  <2> QED
    BY <1>1, <1>2, <2>2, Zenon
<1>5. Cardinality({}) = 0 /\ f[r] \in Nat /\ Cardinality(Cells(g, B)) \in Nat
  BY CellsFinite, FS_EmptySet
<1> QED
  BY <1>3, <1>4, <1>5

LEMMA Distribute ==
  ASSUME NEW B \in Nat, NEW w \in Nat \ {0}
  PROVE  (w - 1) * B + B = w * B
OBVIOUS

LEMMA Monotone ==
  ASSUME NEW B \in Nat, NEW v \in Nat, NEW w \in Nat, v <= w
  PROVE  v * B <= w * B /\ v * B \in Nat /\ w * B \in Nat
OBVIOUS

(* A request at work that holds what is left of the budget: the others hold at most B
   each. *)
LEMMA CellsJoined ==
  ASSUME NEW B \in Nat, NEW f \in [Requests -> 0..B],
         NEW W \in SUBSET Requests, \A s \in Requests \ W : f[s] = 0,
         NEW r \in W, NEW c \in Nat, c + f[r] <= B
  PROVE  c + Cardinality(Cells(f, B)) <= Cardinality(W) * B
<1> DEFINE rest == (W \ {r}) \X (1..B)
           own == {r} \X (1..f[r])
<1>1. IsFiniteSet(W) /\ Cardinality(W) \in Nat /\ Cardinality(W) > 0
  <2>1. IsFiniteSet(W)
    BY RequestsFinite, FS_Subset
  <2> QED
    BY <2>1, FS_CardinalityType, FS_EmptySet
<1>2. IsFiniteSet(W \ {r}) /\ Cardinality(W \ {r}) = Cardinality(W) - 1
  BY <1>1, FS_RemoveElement
<1>3. IsFiniteSet(rest) /\ Cardinality(rest) = (Cardinality(W) - 1) * B
  <2>1. IsFiniteSet(1..B) /\ Cardinality(1..B) = B
    BY FS_Interval
  <2>2. IsFiniteSet(rest) /\ Cardinality(rest) = Cardinality(W \ {r}) * Cardinality(1..B)
    BY <1>2, <2>1, FS_Product, Zenon
  <2> QED
    BY <1>2, <2>1, <2>2
<1>4. IsFiniteSet(own) /\ Cardinality(own) = f[r]
  <2>1. f[r] \in Nat
    OBVIOUS
  <2> QED
    BY <2>1, ColumnSize, Zenon
<1>5. IsFiniteSet(rest \cup own) /\ Cardinality(rest \cup own) <= Cardinality(rest) + f[r]
  <2>1. Cardinality(rest \cap own) \in Nat
    BY <1>3, FS_Intersection, FS_CardinalityType
  <2>2. Cardinality(rest \cup own) = Cardinality(rest) + Cardinality(own) - Cardinality(rest \cap own)
        /\ IsFiniteSet(rest \cup own)
    BY <1>3, <1>4, FS_Union
  <2>3. Cardinality(rest) \in Nat
    BY <1>3, FS_CardinalityType
  <2> QED
    BY <1>4, <2>1, <2>2, <2>3
<1>6. Cells(f, B) \subseteq rest \cup own
  BY DEF Cells
<1>7. Cardinality(Cells(f, B)) <= Cardinality(rest) + f[r]
  <2>1. Cardinality(Cells(f, B)) <= Cardinality(rest \cup own)
    BY <1>5, <1>6, FS_Subset
  <2>2. Cardinality(rest \cup own) \in Nat /\ Cardinality(rest) \in Nat
    BY <1>3, <1>5, FS_CardinalityType
  <2> QED
    BY <1>5, <2>1, <2>2, CellsFinite
<1>8. (Cardinality(W) - 1) * B + B = Cardinality(W) * B
  BY <1>1, Distribute
<1>9. (Cardinality(W) - 1) * B \in Nat /\ Cardinality(W) * B \in Nat
  BY <1>1
<1> QED
  BY <1>3, <1>7, <1>8, <1>9, CellsFinite
-----------------------------------------------------------------------------
(* Requests.  What a turn has used stays within what was left when it started, and what
   it ran is counted; an approval has run its tool between Run and ChargeApproved. *)

LEMMA Parameters ==
  /\ CallBudget \in Nat /\ CallBudget > 0 /\ TokenBudget \in Nat /\ TokenBudget > 0
  /\ RoundTokens \in Nat /\ MaxCalls \in Nat /\ Turns \cap Approvals = {}
  /\ Turns \subseteq Requests /\ Approvals \subseteq Requests
BY CopilotAssumption DEF Requests

Quota == [calls : 0..CallBudget, tokens : 0..TokenBudget]

Typed ==
  /\ pc \in [Requests -> TurnPc \cup ApprovalPc]
  /\ quota \in [Turns -> Quota]
  /\ count \in [Turns -> Nat] /\ spent \in [Turns -> Nat]
  /\ asked \in [Turns -> Seq(Kind)]
  /\ ran \in [Requests -> Nat]
  /\ calls \in Nat /\ tokens \in Nat /\ faults \in Nat

TurnOK(t) ==
  /\ pc[t] \in TurnPc
  /\ ran[t] <= count[t] /\ count[t] + Len(asked[t]) <= quota[t].calls
  /\ pc[t] = "idle" => count[t] = 0 /\ spent[t] = 0 /\ asked[t] = << >>
  /\ pc[t] \in {"loop", "model"} => asked[t] = << >>
  /\ pc[t] # "idle" =>
       quota[t].tokens >= 1 /\ spent[t] <= quota[t].tokens - 1 + RoundTokens
  /\ pc[t] = "model" => spent[t] < quota[t].tokens

ApprovalOK(a) ==
  pc[a] \in ApprovalPc /\ ran[a] = IF pc[a] = "charge" THEN 1 ELSE 0

RequestsInv ==
  Typed /\ (\A t \in Turns : TurnOK(t)) /\ (\A a \in Approvals : ApprovalOK(a))

LEMMA RequestsInit == Init => RequestsInv
<1> SUFFICES ASSUME Init PROVE RequestsInv
  OBVIOUS
<1>1. /\ pc = [r \in Requests |-> "idle"] /\ quota = [t \in Turns |-> NoQuota]
      /\ count = [t \in Turns |-> 0] /\ spent = [t \in Turns |-> 0]
      /\ asked = [t \in Turns |-> << >>] /\ ran = [r \in Requests |-> 0]
      /\ calls = 0 /\ tokens = 0 /\ faults = 0
  BY Zenon DEF Init
<1>2. Typed
  BY <1>1, Parameters DEF Typed, Quota, NoQuota, TurnPc, ApprovalPc
<1> QED
  BY <1>1, <1>2, Parameters DEF RequestsInv, TurnOK, ApprovalOK, NoQuota, TurnPc, ApprovalPc

(* A step of turn t leaves the other requests alone. *)
LEMMA TurnStep ==
  ASSUME RequestsInv, NEW t \in Turns, Typed', TurnOK(t)',
         \A s \in Turns \ {t} : /\ pc'[s] = pc[s] /\ quota'[s] = quota[s] /\ ran'[s] = ran[s]
                                /\ count'[s] = count[s] /\ spent'[s] = spent[s]
                                /\ asked'[s] = asked[s],
         \A a \in Approvals : pc'[a] = pc[a] /\ ran'[a] = ran[a]
  PROVE  RequestsInv'
BY DEF RequestsInv, TurnOK, ApprovalOK

LEMMA ApprovalStep ==
  ASSUME RequestsInv, NEW a \in Approvals, Typed', ApprovalOK(a)',
         \A r \in Requests \ {a} : pc'[r] = pc[r] /\ ran'[r] = ran[r],
         UNCHANGED turnVars
  PROVE  RequestsInv'
BY Parameters DEF RequestsInv, TurnOK, ApprovalOK, turnVars

LEMMA RequestsNext == RequestsInv /\ [Next]_vars => RequestsInv'
<1> SUFFICES ASSUME RequestsInv, [Next]_vars PROVE RequestsInv'
  OBVIOUS
<1> USE Parameters
<1>1. ASSUME UNCHANGED <<pc, quota, count, spent, asked, ran>>,
             calls' \in Nat, tokens' \in Nat, faults' \in Nat
      PROVE  RequestsInv'
  BY <1>1 DEF RequestsInv, Typed, TurnOK, ApprovalOK
<1>2. CASE Time \/ Midnight \/ Settings
  BY <1>1, <1>2 DEF Time, Midnight, Settings, Disturb, RequestsInv, Typed, store, history, turnVars
<1>3. CASE Restart
  <2>1. /\ pc' = [r \in Requests |-> "idle"] /\ quota' = [t \in Turns |-> NoQuota]
        /\ count' = [t \in Turns |-> 0] /\ spent' = [t \in Turns |-> 0]
        /\ asked' = [t \in Turns |-> << >>] /\ ran' = [r \in Requests |-> 0]
        /\ UNCHANGED <<calls, tokens>> /\ faults' = faults + 1
    BY <1>3 DEF Restart, Forget, Disturb, store
  <2>2. Typed'
    BY <2>1 DEF RequestsInv, Typed, Quota, NoQuota, TurnPc, ApprovalPc
  <2> QED
    BY <2>1, <2>2 DEF RequestsInv, TurnOK, ApprovalOK, NoQuota, TurnPc, ApprovalPc
<1>4. ASSUME NEW t \in Turns, Start(t) PROVE RequestsInv'
  <2> DEFINE left == [calls |-> Rest(CallBudget, calls), tokens |-> Rest(TokenBudget, tokens)]
  <2>1. CASE UNCHANGED <<pc, quota>>
    BY <1>1, <1>4, <2>1 DEF Start, store, RequestsInv, Typed
  <2>2. CASE /\ left.calls > 0 /\ left.tokens > 0
             /\ pc' = [pc EXCEPT ![t] = "loop"] /\ quota' = [quota EXCEPT ![t] = left]
    <3>1. left \in Quota
      BY DEF Rest, Quota, RequestsInv, Typed
    <3>2. /\ pc[t] = "idle"
          /\ UNCHANGED <<calls, tokens, faults, count, spent, asked, ran>>
      BY <1>4 DEF Start, store
    <3>3. Typed'
      BY <2>2, <3>1, <3>2 DEF RequestsInv, Typed, TurnPc
    <3>4. TurnOK(t)'
      <4>1. pc'[t] = "loop" /\ quota'[t] = left
        BY <2>2 DEF RequestsInv, Typed
      <4>2. count'[t] = 0 /\ spent'[t] = 0 /\ asked'[t] = << >> /\ ran'[t] = 0
        BY <3>2 DEF RequestsInv, Typed, TurnOK
      <4>3. left.calls \in Nat /\ left.tokens \in Nat
        BY <3>1 DEF Quota
      <4> HIDE DEF left
      <4> QED
        BY <2>2, <4>1, <4>2, <4>3 DEF TurnOK, TurnPc
    <3> QED
      BY <2>2, <3>2, <3>3, <3>4, TurnStep DEF RequestsInv, Typed
  <2> QED
    BY <1>4, <2>1, <2>2 DEF Start, GoTo, RequestsInv, Typed
<1>5. ASSUME NEW t \in Turns, Loop(t) PROVE RequestsInv'
  <2>1. /\ pc[t] = "loop" \/ (pc[t] = "tools" /\ asked[t] = << >>)
        /\ pc' = [pc EXCEPT ![t] = IF AtLimit(t) THEN "record" ELSE "model"]
        /\ UNCHANGED <<calls, tokens, faults, quota, count, spent, asked, ran>>
    BY <1>5 DEF Loop, GoTo, store, history
  <2>2. Typed'
    BY <2>1 DEF RequestsInv, Typed, TurnPc
  <2>3. TurnOK(t)'
    BY <2>1 DEF RequestsInv, Typed, TurnOK, TurnPc, AtLimit, Quota
  <2> QED
    BY <2>1, <2>2, <2>3, TurnStep DEF RequestsInv, Typed
<1>6. ASSUME NEW t \in Turns, ModelAnswers(t) PROVE RequestsInv'
  <2>0. PICK cost \in 1..RoundTokens, kinds \in UNION {[1..n -> Kind] : n \in 0..Room(t)} :
          /\ spent' = [spent EXCEPT ![t] = @ + cost]
          /\ asked' = [asked EXCEPT ![t] = kinds]
          /\ pc' = [pc EXCEPT ![t] = IF kinds = << >> THEN "record" ELSE "tools"]
    BY <1>6, Zenon DEF ModelAnswers, GoTo
  <2>1. PICK n \in 0..Room(t) : kinds \in [1..n -> Kind]
    BY <2>0, Zenon
  <2>2. kinds \in Seq(Kind) /\ Len(kinds) = n
    BY <2>1
  <2>3. pc[t] = "model" /\ UNCHANGED <<calls, tokens, faults, quota, count, ran>>
    BY <1>6 DEF ModelAnswers, store, history
  <2>4. Typed'
    BY <2>0, <2>2, <2>3 DEF RequestsInv, Typed, TurnPc
  <2>5. n <= quota[t].calls - count[t]
    BY <2>1 DEF Room, Lower, RequestsInv, Typed, Quota
  <2>6. TurnOK(t)'
    BY <2>0, <2>2, <2>3, <2>5 DEF RequestsInv, Typed, TurnOK, TurnPc, Quota
  <2>7. /\ \A s \in Turns \ {t} : spent'[s] = spent[s] /\ asked'[s] = asked[s]
        /\ \A r \in Requests \ {t} : pc'[r] = pc[r]
    BY <2>0 DEF RequestsInv, Typed
  <2> QED
    BY <2>3, <2>4, <2>6, <2>7, TurnStep
<1>7. ASSUME NEW t \in Turns, ModelFails(t) \/ Disconnect(t) \/ Mint(t) PROVE RequestsInv'
  <2>1. /\ pc[t] \in {"model", "tools"} /\ pc' = [pc EXCEPT ![t] = "record"]
        /\ UNCHANGED <<calls, tokens, quota, count, spent, asked, ran>> /\ faults' \in Nat
    BY <1>7 DEF ModelFails, Disconnect, Mint, GoTo, Disturb, store, history, turnVars,
                RequestsInv, Typed
  <2>2. Typed'
    BY <2>1 DEF RequestsInv, Typed, TurnPc
  <2>3. TurnOK(t)'
    BY <2>1 DEF RequestsInv, Typed, TurnOK, TurnPc
  <2> QED
    BY <2>1, <2>2, <2>3, TurnStep DEF RequestsInv, Typed
<1>8. ASSUME NEW t \in Turns, Call(t) PROVE RequestsInv'
  <2>1. /\ pc[t] = "tools" /\ asked[t] # << >>
        /\ asked' = [asked EXCEPT ![t] = Tail(@)]
        /\ UNCHANGED <<calls, tokens, faults, pc, quota, spent>>
    BY <1>8 DEF Call, store
  <2>2. /\ count' = [count EXCEPT ![t] = IF Waits(t) THEN @ ELSE @ + 1]
        /\ \/ UNCHANGED ran
           \/ ~Waits(t) /\ ran' = [ran EXCEPT ![t] = @ + 1]
    BY <1>8 DEF Call, Waits
  <2>c. \/ count' = count /\ ran' = ran
        \/ count' = [count EXCEPT ![t] = @ + 1] /\ ran' = ran
        \/ count' = [count EXCEPT ![t] = @ + 1] /\ ran' = [ran EXCEPT ![t] = @ + 1]
    BY <2>2 DEF RequestsInv, Typed
  <2>3. Tail(asked[t]) \in Seq(Kind) /\ Len(Tail(asked[t])) = Len(asked[t]) - 1
    BY <2>1 DEF RequestsInv, Typed
  <2>4. /\ count' \in [Turns -> Nat]
        /\ \A s \in Turns \ {t} : count'[s] = count[s] /\ asked'[s] = asked[s]
    <3>1. count \in [Turns -> Nat]
      BY DEF RequestsInv, Typed
    <3>2. CASE count' = count
      BY <2>1, <3>1, <3>2
    <3>3. CASE count' = [count EXCEPT ![t] = @ + 1]
      BY <2>1, <3>1, <3>3
    <3> QED
      BY <2>c, <3>2, <3>3
  <2>r. /\ ran' \in [Requests -> Nat]
        /\ \A r \in Requests \ {t} : ran'[r] = ran[r]
    <3>1. ran \in [Requests -> Nat]
      BY DEF RequestsInv, Typed
    <3>2. CASE ran' = ran
      BY <3>1, <3>2
    <3>3. CASE ran' = [ran EXCEPT ![t] = @ + 1]
      BY <3>1, <3>3
    <3> QED
      BY <2>c, <3>2, <3>3
  <2>5. Typed'
    BY <2>1, <2>3, <2>4, <2>r DEF RequestsInv, Typed
  <2>6. TurnOK(t)'
    BY <2>1, <2>c, <2>3 DEF RequestsInv, Typed, TurnOK, TurnPc, Quota
  <2> QED
    BY <2>1, <2>4, <2>r, <2>5, <2>6, TurnStep
<1>9. ASSUME NEW t \in Turns, Record(t) PROVE RequestsInv'
  <2>1. /\ pc' = [pc EXCEPT ![t] = "idle"] /\ ran' = [ran EXCEPT ![t] = 0]
        /\ tokens' = tokens + spent[t] /\ calls' = calls + count[t] /\ UNCHANGED faults
    BY <1>9 DEF Record, GoTo, Charge
  <2>2. /\ quota' = [s \in Turns |-> IF s \in {t} THEN NoQuota ELSE quota[s]]
        /\ count' = [s \in Turns |-> IF s \in {t} THEN 0 ELSE count[s]]
        /\ spent' = [s \in Turns |-> IF s \in {t} THEN 0 ELSE spent[s]]
        /\ asked' = [s \in Turns |-> IF s \in {t} THEN << >> ELSE asked[s]]
    BY <1>9 DEF Record, Forget
  <2>3. /\ \A s \in Turns \ {t} : /\ pc'[s] = pc[s] /\ ran'[s] = ran[s] /\ quota'[s] = quota[s]
                                   /\ count'[s] = count[s] /\ spent'[s] = spent[s]
                                   /\ asked'[s] = asked[s]
        /\ \A a \in Approvals : pc'[a] = pc[a] /\ ran'[a] = ran[a]
    BY <2>1, <2>2 DEF RequestsInv, Typed
  <2>4. calls' \in Nat /\ tokens' \in Nat /\ faults' \in Nat /\ NoQuota \in Quota
    BY <2>1 DEF RequestsInv, Typed, NoQuota, Quota
  <2>5. Typed'
    BY <2>1, <2>2, <2>4 DEF RequestsInv, Typed, TurnPc
  <2>6. TurnOK(t)'
    BY <2>1, <2>2 DEF RequestsInv, Typed, TurnOK, TurnPc, NoQuota
  <2> QED
    BY <2>3, <2>5, <2>6, TurnStep
<1>10. ASSUME NEW a \in Approvals, NEW k \in Cards, Accept(a, k) PROVE RequestsInv'
  <2>1. /\ pc[a] = "idle" /\ UNCHANGED <<calls, tokens, turnVars, ran, faults>>
        /\ pc' = pc \/ pc' = [pc EXCEPT ![a] = "check"]
    BY <1>10 DEF Accept, GoTo, store
  <2>2. Typed'
    BY <2>1 DEF RequestsInv, Typed, ApprovalPc, turnVars
  <2>3. ApprovalOK(a)'
    BY <2>1 DEF RequestsInv, Typed, ApprovalOK, ApprovalPc
  <2> QED
    BY <2>1, <2>2, <2>3, ApprovalStep DEF RequestsInv, Typed
<1>11. ASSUME NEW a \in Approvals, Check(a) PROVE RequestsInv'
  <2>1. /\ pc[a] = "check" /\ UNCHANGED <<calls, tokens, turnVars, ran, faults>>
        /\ pc' = [pc EXCEPT ![a] = "run"] \/ pc' = [pc EXCEPT ![a] = "idle"]
    BY <1>11 DEF Check, GoTo, store, history
  <2>2. Typed'
    BY <2>1 DEF RequestsInv, Typed, ApprovalPc, turnVars
  <2>3. ApprovalOK(a)'
    BY <2>1 DEF RequestsInv, Typed, ApprovalOK, ApprovalPc
  <2> QED
    BY <2>1, <2>2, <2>3, ApprovalStep DEF RequestsInv, Typed
<1>12. ASSUME NEW a \in Approvals, Run(a) PROVE RequestsInv'
  <2>1. /\ pc[a] = "run" /\ UNCHANGED <<calls, tokens, turnVars, faults>>
        /\ \/ pc' = [pc EXCEPT ![a] = "idle"] /\ ran' = ran
           \/ pc' = [pc EXCEPT ![a] = "charge"] /\ ran' = [ran EXCEPT ![a] = 1]
    BY <1>12 DEF Run, GoTo, store
  <2>n. pc' \in [Requests -> TurnPc \cup ApprovalPc] /\ ran' \in [Requests -> Nat]
    BY <2>1 DEF RequestsInv, Typed, ApprovalPc
  <2>2. Typed'
    BY <2>1, <2>n DEF RequestsInv, Typed, turnVars
  <2>3. ApprovalOK(a)'
    BY <2>1 DEF RequestsInv, Typed, ApprovalOK, ApprovalPc
  <2> QED
    BY <2>1, <2>2, <2>3, ApprovalStep DEF RequestsInv, Typed
<1>13. ASSUME NEW a \in Approvals, ChargeApproved(a) PROVE RequestsInv'
  <2>1. /\ pc' = [pc EXCEPT ![a] = "idle"] /\ ran' = [ran EXCEPT ![a] = 0]
        /\ tokens' = tokens + 0 /\ calls' = calls + 1 /\ UNCHANGED <<turnVars, faults>>
    BY <1>13 DEF ChargeApproved, GoTo, Charge
  <2>n. calls' \in Nat /\ tokens' \in Nat
    BY <2>1 DEF RequestsInv, Typed
  <2>2. Typed'
    BY <2>1, <2>n DEF RequestsInv, Typed, ApprovalPc, turnVars
  <2>3. ApprovalOK(a)'
    BY <2>1 DEF RequestsInv, Typed, ApprovalOK, ApprovalPc
  <2> QED
    BY <2>1, <2>2, <2>3, ApprovalStep DEF RequestsInv, Typed
<1>14. CASE UNCHANGED vars
  BY <1>1, <1>14 DEF vars, turnVars, RequestsInv, Typed
<1> QED
  BY <1>2, <1>3, <1>4, <1>5, <1>6, <1>7, <1>8, <1>9, <1>10, <1>11, <1>12, <1>13, <1>14
  DEF Next
(* No tool runs for nothing, for any number of requests, limits and ways to end: what a
   request ran is charged when it ends, unless the process dies.  (Audit and usage entries
   that cannot be written are not in the model.) *)
THEOREM RunsCounted == Spec => Counted
<1>1. ASSUME RequestsInv, [Next]_vars, NEW r \in Requests,
             pc[r] # "idle", pc'[r] = "idle", faults' = faults
      PROVE  calls' >= calls + ran[r]
  <2> USE Parameters
  <2>1. \/ \E t \in Turns : Record(t)
        \/ \E a \in Approvals : Check(a) \/ Run(a) \/ ChargeApproved(a)
    <3>1. faults \in Nat /\ pc \in [Requests -> TurnPc \cup ApprovalPc]
      BY <1>1 DEF RequestsInv, Typed
    <3>2. ~Restart
      BY <1>1, <3>1 DEF Restart, Disturb
    <3>3. ASSUME UNCHANGED pc PROVE FALSE
      BY <1>1, <3>3
    <3>4. ASSUME NEW q \in Requests, NEW l, GoTo(q, l), l # "idle" PROVE FALSE
      BY <1>1, <3>1, <3>4 DEF GoTo
    <3>5. ASSUME NEW t \in Turns, Start(t) PROVE FALSE
      BY <3>3, <3>4, <3>5 DEF Start
    <3>6. ASSUME NEW t \in Turns, Loop(t) \/ ModelAnswers(t) \/ ModelFails(t) \/ Mint(t) \/ Disconnect(t)
          PROVE  FALSE
      BY <3>4, <3>6 DEF Loop, ModelAnswers, ModelFails, Mint, Disconnect
    <3>7. ASSUME NEW a \in Approvals, NEW k \in Cards, Accept(a, k) PROVE FALSE
      BY <3>3, <3>4, <3>7 DEF Accept
    <3>8. ~(Time \/ Midnight \/ Settings \/ UNCHANGED vars) /\ \A t \in Turns : ~Call(t)
      BY <3>3 DEF Time, Midnight, Settings, vars, Call
    <3> QED
      BY <1>1, <3>2, <3>5, <3>6, <3>7, <3>8 DEF Next
  <2>2. ASSUME NEW t \in Turns, Record(t) PROVE calls' >= calls + ran[r]
    <3>1. r = t
      BY <1>1, <2>2 DEF Record, GoTo, RequestsInv, Typed
    <3>2. calls' = calls + count[t]
      BY <2>2 DEF Record, Charge
    <3> QED
      BY <1>1, <3>1, <3>2 DEF RequestsInv, Typed, TurnOK
  <2>3. ASSUME NEW a \in Approvals, Check(a) PROVE calls' >= calls + ran[r]
    <3>1. r = a /\ UNCHANGED calls /\ pc[a] = "check"
      BY <1>1, <2>3 DEF Check, GoTo, RequestsInv, Typed, store
    <3>2. ran[a] = 0 /\ calls \in Nat
      BY <1>1, <3>1 DEF RequestsInv, Typed, ApprovalOK
    <3> QED
      BY <3>1, <3>2
  <2>4. ASSUME NEW a \in Approvals, Run(a) PROVE calls' >= calls + ran[r]
    <3>1. r = a /\ UNCHANGED calls /\ pc[a] = "run"
      BY <1>1, <2>4 DEF Run, GoTo, RequestsInv, Typed, store
    <3>2. ran[a] = 0 /\ calls \in Nat
      BY <1>1, <3>1 DEF RequestsInv, Typed, ApprovalOK
    <3> QED
      BY <3>1, <3>2
  <2>5. ASSUME NEW a \in Approvals, ChargeApproved(a) PROVE calls' >= calls + ran[r]
    <3>1. r = a /\ calls' = calls + 1
      BY <1>1, <2>5 DEF ChargeApproved, GoTo, Charge, RequestsInv, Typed
    <3>2. ran[a] \in {0, 1} /\ calls \in Nat
      BY <1>1 DEF RequestsInv, Typed, ApprovalOK
    <3> QED
      BY <3>1, <3>2
  <2> QED
    BY <2>1, <2>2, <2>3, <2>4, <2>5
<1>2. RequestsInv /\ [Next]_vars =>
        [\A r \in Requests :
           pc[r] # "idle" /\ pc'[r] = "idle" /\ faults' = faults => calls' >= calls + ran[r]]_vars
  BY <1>1
<1> QED
  BY <1>2, RequestsInit, RequestsNext, PTL DEF Spec, Counted
-----------------------------------------------------------------------------
(* The budget.  A request at work holds what it may still charge: a turn what was left
   when it started (and the tokens its last round may cost beyond that), an approval
   one call once it has seen room for it. *)

Work == {r \in Requests : pc[r] # "idle"}
TokenTop == TokenBudget - 1 + RoundTokens

CallsHeld ==
  [r \in Requests |->
     IF r \in Turns THEN (IF pc[r] = "idle" THEN 0 ELSE quota[r].calls)
                    ELSE (IF pc[r] \in {"run", "charge"} THEN 1 ELSE 0)]
TokensHeld ==
  [r \in Requests |->
     IF r \in Turns /\ pc[r] # "idle" THEN quota[r].tokens - 1 + RoundTokens ELSE 0]

(* What is charged and what is held stay within the budget of so many requests. *)
Fits(c, f, B, w) == c + Cardinality(Cells(f, B)) <= w * B

BudgetInv ==
  /\ width \in Nat /\ Cardinality(Work) <= width
  /\ Fits(calls, CallsHeld, CallBudget, width)
  /\ Fits(tokens, TokensHeld, TokenTop, width)

LEMMA TopNat == TokenTop \in Nat
BY Parameters DEF TokenTop

HeldOK ==
  /\ CallsHeld \in [Requests -> 0..CallBudget]
  /\ TokensHeld \in [Requests -> 0..TokenTop]
  /\ \A r \in Requests \ Work : CallsHeld[r] = 0 /\ TokensHeld[r] = 0
  /\ Work \subseteq Requests
  /\ calls \in Nat /\ tokens \in Nat

LEMMA HeldTyped == RequestsInv => HeldOK
<1> SUFFICES ASSUME RequestsInv PROVE HeldOK
  OBVIOUS
<1>1. \A t \in Turns : /\ quota[t].calls \in 0..CallBudget /\ quota[t].tokens \in 0..TokenBudget
                       /\ pc[t] # "idle" => quota[t].tokens >= 1
  BY DEF RequestsInv, Typed, TurnOK, Quota
<1> QED
  BY <1>1, Parameters DEF HeldOK, CallsHeld, TokensHeld, Work, TokenTop, RequestsInv, Typed

LEMMA WorkFinite ==
  IsFiniteSet(Work) /\ Cardinality(Work) \in Nat
<1>1. Work \subseteq Requests
  BY DEF Work
<1> QED
  BY <1>1, RequestsFinite, FS_Subset, FS_CardinalityType

LEMMA FitsWider ==
  ASSUME NEW c \in Nat, NEW f, NEW B \in Nat, NEW v \in Nat, NEW w \in Nat, v <= w,
         Fits(c, f, B, v)
  PROVE  Fits(c, f, B, w)
<1>1. v * B <= w * B /\ v * B \in Nat /\ w * B \in Nat
  BY Monotone
<1> QED
  BY <1>1, CellsFinite DEF Fits

(* Request r charges d of what it holds, and holds no more. *)
LEMMA FitsRelease ==
  ASSUME NEW c \in Nat, NEW B \in Nat, NEW f \in [Requests -> 0..B], NEW w \in Nat,
         NEW r \in Requests, NEW d \in Nat, d <= f[r], Fits(c, f, B, w)
  PROVE  Fits(c + d, [f EXCEPT ![r] = 0], B, w)
<1> DEFINE g == [f EXCEPT ![r] = 0]
<1>1. Cardinality(Cells(g, B)) + f[r] = Cardinality(Cells(f, B))
  BY CellsRelease
<1>2. Cardinality(Cells(g, B)) \in Nat /\ Cardinality(Cells(f, B)) \in Nat /\ f[r] \in Nat
  BY CellsFinite
<1>3. w * B \in Nat
  BY Monotone
<1> HIDE DEF g
<1>4. c + d + Cardinality(Cells(g, B)) <= w * B
  BY <1>1, <1>2, <1>3 DEF Fits
<1> QED
  BY <1>4 DEF Fits, g

LEMMA FitsFewer ==
  ASSUME NEW c \in Nat, NEW B \in Nat, NEW f \in [Requests -> 0..B],
         NEW g \in [Requests -> 0..B], NEW w \in Nat,
         \A r \in Requests : g[r] <= f[r], Fits(c, f, B, w)
  PROVE  Fits(c, g, B, w)
BY CellsShrink, CellsFinite, Monotone DEF Fits

(* Request r holds what is left, at most, and with it so many requests are at work. *)
LEMMA FitsJoined ==
  ASSUME NEW c \in Nat, NEW B \in Nat, NEW f \in [Requests -> 0..B], NEW w \in Nat,
         NEW W \in SUBSET Requests, \A s \in Requests \ W : f[s] = 0,
         NEW r \in W, c + f[r] <= B, Cardinality(W) <= w
  PROVE  Fits(c, f, B, w)
<1>1. c + Cardinality(Cells(f, B)) <= Cardinality(W) * B
  BY CellsJoined
<1>2. Cardinality(W) \in Nat
  BY RequestsFinite, FS_Subset, FS_CardinalityType
<1>3. Cardinality(W) * B <= w * B /\ Cardinality(W) * B \in Nat /\ w * B \in Nat
  BY <1>2, Monotone
<1> QED
  BY <1>1, <1>3, CellsFinite DEF Fits

LEMMA BudgetInit == Init => BudgetInv
<1> SUFFICES ASSUME Init PROVE BudgetInv
  OBVIOUS
<1>1. /\ pc = [r \in Requests |-> "idle"] /\ calls = 0 /\ tokens = 0 /\ width = 0
  BY Zenon DEF Init
<1>2. Work = {}
  BY <1>1 DEF Work
<1>3. Cells(CallsHeld, CallBudget) = {} /\ Cells(TokensHeld, TokenTop) = {}
  <2>1. \A r \in Requests : CallsHeld[r] = 0 /\ TokensHeld[r] = 0
    BY <1>1, Parameters DEF CallsHeld, TokensHeld
  <2> QED
    BY <2>1 DEF Cells
<1>4. Cardinality({}) = 0
  BY FS_EmptySet
<1>5. 0 * CallBudget = 0 /\ 0 * TokenTop = 0
  BY Parameters, TopNat
<1> QED
  BY <1>1, <1>2, <1>3, <1>4, <1>5 DEF BudgetInv, Fits

(* A request goes to work. *)
LEMMA WorkJoins ==
  ASSUME RequestsInv, BudgetInv, NEW r \in Requests, pc[r] = "idle",
         NEW l, l # "idle", GoTo(r, l), Joins
  PROVE  /\ width' \in Nat /\ width <= width' /\ Cardinality(Work)' <= width'
         /\ Work' = Work \cup {r}
<1>1. Work' = Work \cup {r} /\ r \notin Work
  BY DEF Work, GoTo, RequestsInv, Typed
<1>2. Cardinality(Work \cup {r}) = Cardinality(Work) + 1
  BY <1>1, WorkFinite, FS_AddElement
<1>3. width' = IF width < Cardinality(Work) + 1 THEN Cardinality(Work) + 1 ELSE width
  BY DEF Joins, Work
<1> QED
  BY <1>1, <1>2, <1>3, WorkFinite DEF BudgetInv

(* A request leaves work, or none does. *)
LEMMA WorkLeaves ==
  ASSUME BudgetInv, UNCHANGED width, Work' \subseteq Work
  PROVE  width' \in Nat /\ Cardinality(Work)' <= width'
<1>1. Cardinality(Work') <= Cardinality(Work) /\ Cardinality(Work') \in Nat
  BY WorkFinite, FS_Subset, FS_CardinalityType
<1> QED
  BY <1>1, WorkFinite DEF BudgetInv
LEMMA BudgetNext == RequestsInv /\ BudgetInv /\ [Next]_vars => BudgetInv'
<1> SUFFICES ASSUME RequestsInv, BudgetInv, [Next]_vars PROVE BudgetInv'
  OBVIOUS
<1> USE Parameters, TopNat
<1>a. RequestsInv'
  BY RequestsNext
<1>b. /\ CallsHeld \in [Requests -> 0..CallBudget] /\ TokensHeld \in [Requests -> 0..TokenTop]
      /\ \A r \in Requests \ Work : CallsHeld[r] = 0 /\ TokensHeld[r] = 0
      /\ calls \in Nat /\ tokens \in Nat /\ width \in Nat
  BY HeldTyped DEF HeldOK, BudgetInv
<1>c. /\ CallsHeld' \in [Requests -> 0..CallBudget] /\ TokensHeld' \in [Requests -> 0..TokenTop]
      /\ \A r \in Requests \ Work' : CallsHeld'[r] = 0 /\ TokensHeld'[r] = 0
      /\ calls' \in Nat /\ tokens' \in Nat /\ Work' \subseteq Requests
  <2>1. HeldOK'
    BY <1>a, HeldTyped, PTL
  <2> QED
    BY <2>1 DEF HeldOK
<1>1. ASSUME UNCHANGED <<pc, quota, width, calls, tokens>> PROVE BudgetInv'
  <2>1. CallsHeld' = CallsHeld /\ TokensHeld' = TokensHeld /\ Work' = Work
    BY <1>1 DEF CallsHeld, TokensHeld, Work
  <2> QED
    BY <1>1, <2>1 DEF BudgetInv, Fits
<1>2. CASE Time \/ Settings \/ (\E t \in Turns : Call(t)) \/ UNCHANGED vars
  BY <1>1, <1>2 DEF Time, Settings, Call, vars, store, turnVars, history
<1>3. CASE Midnight
  <2>1. CallsHeld' = CallsHeld /\ TokensHeld' = TokensHeld /\ Work' = Work
        /\ calls' = 0 /\ tokens' = 0 /\ width' = width
    BY <1>3 DEF Midnight, CallsHeld, TokensHeld, Work, turnVars, history
  <2>2. width * CallBudget \in Nat /\ width * TokenTop \in Nat
    BY <1>b
  <2>3. Cardinality(Cells(CallsHeld, CallBudget)) \in Nat /\ Cardinality(Cells(TokensHeld, TokenTop)) \in Nat
    BY CellsFinite
  <2> QED
    BY <1>b, <2>1, <2>2, <2>3 DEF BudgetInv, Fits
<1>4. CASE Restart
  <2>1. /\ pc' = [r \in Requests |-> "idle"] /\ UNCHANGED <<calls, tokens, width>>
    BY <1>4 DEF Restart, store
  <2>2. Work' = {} /\ \A r \in Requests : CallsHeld'[r] = 0 /\ TokensHeld'[r] = 0
    BY <2>1 DEF Work, CallsHeld, TokensHeld
  <2>3. width' \in Nat /\ Cardinality(Work)' <= width'
    BY <2>1, <2>2, WorkLeaves
  <2>4. \A r \in Requests : CallsHeld'[r] <= CallsHeld[r] /\ TokensHeld'[r] <= TokensHeld[r]
    BY <1>b, <2>2
  <2>5. Fits(calls, CallsHeld', CallBudget, width) /\ Fits(tokens, TokensHeld', TokenTop, width)
    BY <1>b, <1>c, <2>4, FitsFewer DEF BudgetInv
  <2> QED
    BY <2>1, <2>3, <2>5 DEF BudgetInv, Fits
<1>5. ASSUME NEW t \in Turns, Start(t) PROVE BudgetInv'
  <2> DEFINE left == [calls |-> Rest(CallBudget, calls), tokens |-> Rest(TokenBudget, tokens)]
  <2>1. CASE UNCHANGED <<pc, quota, width>>
    BY <1>1, <1>5, <2>1 DEF Start, store
  <2>2. CASE /\ left.calls > 0 /\ left.tokens > 0 /\ GoTo(t, "loop") /\ Joins
             /\ quota' = [quota EXCEPT ![t] = left]
    <3>1. pc[t] = "idle" /\ UNCHANGED <<calls, tokens>>
      BY <1>5 DEF Start, store
    <3>2. /\ width' \in Nat /\ Cardinality(Work)' <= width' /\ t \in Work'
      BY <2>2, <3>1, WorkJoins
    <3>3. calls + CallsHeld'[t] <= CallBudget /\ tokens + TokensHeld'[t] <= TokenTop
      <4>1. pc'[t] = "loop" /\ quota'[t] = left
        BY <2>2 DEF GoTo, RequestsInv, Typed
      <4>2. left.calls = CallBudget - calls /\ left.tokens = TokenBudget - tokens
        BY <1>b, <2>2 DEF Rest
      <4>3. CallsHeld'[t] = CallBudget - calls /\ TokensHeld'[t] = TokenBudget - tokens - 1 + RoundTokens
        BY <4>1, <4>2 DEF CallsHeld, TokensHeld
      <4> QED
        BY <1>b, <4>3 DEF TokenTop
    <3>4. Fits(calls, CallsHeld', CallBudget, width') /\ Fits(tokens, TokensHeld', TokenTop, width')
      BY <1>b, <1>c, <3>2, <3>3, FitsJoined
    <3> QED
      BY <3>1, <3>2, <3>4 DEF BudgetInv, Fits
  <2> QED
    <3>1. quota \in [Turns -> Quota]
      BY DEF RequestsInv, Typed
    <3>2. CASE left.calls > 0 /\ left.tokens > 0
      BY <1>5, <2>2, <3>2 DEF Start
    <3>3. CASE ~(left.calls > 0 /\ left.tokens > 0)
      BY <1>5, <2>1, <3>1, <3>3 DEF Start
    <3> QED
      BY <3>2, <3>3
<1>6. ASSUME NEW t \in Turns,
             Loop(t) \/ ModelAnswers(t) \/ ModelFails(t) \/ Mint(t) \/ Disconnect(t)
      PROVE  BudgetInv'
  <2>1. pc[t] # "idle" /\ UNCHANGED <<quota, width, calls, tokens>>
    BY <1>6 DEF Loop, ModelAnswers, ModelFails, Mint, Disconnect, store, turnVars, history
  <2>2. \E l : l # "idle" /\ GoTo(t, l)
    <3>1. CASE Loop(t)
      BY <3>1 DEF Loop
    <3>2. CASE ModelAnswers(t)
      BY <3>2 DEF ModelAnswers
    <3>3. CASE ModelFails(t) \/ Mint(t) \/ Disconnect(t)
      BY <3>3 DEF ModelFails, Mint, Disconnect
    <3> QED
      BY <1>6, <3>1, <3>2, <3>3
  <2>3. \A r \in Requests : (pc'[r] = pc[r]) \/ (r = t /\ pc'[r] # "idle")
    BY <2>2 DEF GoTo, RequestsInv, Typed
  <2>4. CallsHeld' = CallsHeld /\ TokensHeld' = TokensHeld /\ Work' = Work
    BY <2>1, <2>3 DEF CallsHeld, TokensHeld, Work
  <2> QED
    BY <2>1, <2>4 DEF BudgetInv, Fits
<1>7. ASSUME NEW t \in Turns, Record(t) PROVE BudgetInv'
  <2>1. /\ pc' = [pc EXCEPT ![t] = "idle"] /\ pc[t] = "record" /\ UNCHANGED width
        /\ tokens' = tokens + spent[t] /\ calls' = calls + count[t]
        /\ quota' = [s \in Turns |-> IF s \in {t} THEN NoQuota ELSE quota[s]]
    BY <1>7 DEF Record, GoTo, Charge, Forget
  <2>2. /\ CallsHeld' = [CallsHeld EXCEPT ![t] = 0]
        /\ TokensHeld' = [TokensHeld EXCEPT ![t] = 0]
        /\ Work' \subseteq Work
    BY <2>1 DEF CallsHeld, TokensHeld, Work, RequestsInv, Typed
  <2>3. /\ count[t] \in Nat /\ spent[t] \in Nat
        /\ count[t] <= CallsHeld[t] /\ spent[t] <= TokensHeld[t]
    BY <2>1 DEF CallsHeld, TokensHeld, RequestsInv, Typed, TurnOK, Quota
  <2>4. Fits(calls', CallsHeld', CallBudget, width) /\ Fits(tokens', TokensHeld', TokenTop, width)
    BY <1>b, <2>1, <2>2, <2>3, FitsRelease DEF BudgetInv
  <2> QED
    BY <2>1, <2>2, <2>4, WorkLeaves DEF BudgetInv, Fits
<1>8. ASSUME NEW a \in Approvals, NEW k \in Cards, Accept(a, k) PROVE BudgetInv'
  <2>1. pc[a] = "idle" /\ UNCHANGED <<calls, tokens, quota>>
    BY <1>8 DEF Accept, store, turnVars
  <2>2. CASE UNCHANGED <<pc, width>>
    BY <1>1, <2>1, <2>2
  <2>3. CASE GoTo(a, "check") /\ Joins
    <3>1. width' \in Nat /\ width <= width' /\ Cardinality(Work)' <= width'
      BY <2>1, <2>3, WorkJoins
    <3>2. CallsHeld' = CallsHeld /\ TokensHeld' = TokensHeld
      BY <2>1, <2>3 DEF CallsHeld, TokensHeld, GoTo, RequestsInv, Typed
    <3>3. Fits(calls, CallsHeld, CallBudget, width') /\ Fits(tokens, TokensHeld, TokenTop, width')
      BY <1>b, <3>1, FitsWider DEF BudgetInv
    <3> QED
      BY <2>1, <3>1, <3>2, <3>3 DEF BudgetInv, Fits
  <2> QED
    BY <1>8, <2>2, <2>3 DEF Accept
<1>9. ASSUME NEW a \in Approvals, Check(a) PROVE BudgetInv'
  <2>1. pc[a] = "check" /\ UNCHANGED <<calls, tokens, quota, width>>
    BY <1>9 DEF Check, store, turnVars, history
  <2>2. CASE calls < CallBudget /\ GoTo(a, "run")
    <3>1. TokensHeld' = TokensHeld /\ Work' = Work /\ CallsHeld'[a] = 1 /\ a \in Work
      BY <2>1, <2>2 DEF CallsHeld, TokensHeld, Work, GoTo, RequestsInv, Typed
    <3>2. Fits(calls, CallsHeld', CallBudget, width)
      <4>1. Cardinality(Work) <= width /\ calls + CallsHeld'[a] <= CallBudget
        BY <1>b, <2>2, <3>1 DEF BudgetInv
      <4> QED
        BY <1>b, <1>c, <3>1, <4>1, FitsJoined
    <3> QED
      BY <2>1, <3>1, <3>2 DEF BudgetInv, Fits
  <2>3. CASE GoTo(a, "idle")
    <3>1. CallsHeld' = CallsHeld /\ TokensHeld' = TokensHeld /\ Work' \subseteq Work
      BY <2>1, <2>3 DEF CallsHeld, TokensHeld, Work, GoTo, RequestsInv, Typed
    <3> QED
      BY <2>1, <3>1, WorkLeaves DEF BudgetInv, Fits
  <2> QED
    BY <1>9, <2>2, <2>3 DEF Check
<1>10. ASSUME NEW a \in Approvals, Run(a) PROVE BudgetInv'
  <2>1. pc[a] = "run" /\ UNCHANGED <<calls, tokens, quota, width>>
    BY <1>10 DEF Run, store, turnVars
  <2>2. CASE GoTo(a, "charge")
    <3>1. CallsHeld' = CallsHeld /\ TokensHeld' = TokensHeld /\ Work' = Work
      BY <2>1, <2>2 DEF CallsHeld, TokensHeld, Work, GoTo, RequestsInv, Typed
    <3> QED
      BY <2>1, <3>1 DEF BudgetInv, Fits
  <2>3. CASE GoTo(a, "idle")
    <3>1. TokensHeld' = TokensHeld /\ Work' \subseteq Work
          /\ \A r \in Requests : CallsHeld'[r] <= CallsHeld[r]
      BY <1>b, <1>c, <2>1, <2>3 DEF CallsHeld, TokensHeld, Work, GoTo, RequestsInv, Typed
    <3>2. Fits(calls, CallsHeld', CallBudget, width)
      BY <1>b, <1>c, <3>1, FitsFewer DEF BudgetInv
    <3> QED
      BY <2>1, <3>1, <3>2, WorkLeaves DEF BudgetInv, Fits
  <2> QED
    BY <1>10, <2>2, <2>3 DEF Run
<1>11. ASSUME NEW a \in Approvals, ChargeApproved(a) PROVE BudgetInv'
  <2>1. /\ pc' = [pc EXCEPT ![a] = "idle"] /\ pc[a] = "charge" /\ UNCHANGED <<quota, width>>
        /\ tokens' = tokens /\ calls' = calls + 1
    BY <1>11, <1>b DEF ChargeApproved, GoTo, Charge, turnVars
  <2>2. /\ CallsHeld' = [CallsHeld EXCEPT ![a] = 0] /\ CallsHeld[a] = 1
        /\ TokensHeld' = TokensHeld /\ Work' \subseteq Work
    BY <2>1 DEF CallsHeld, TokensHeld, Work, RequestsInv, Typed
  <2>3. Fits(calls', CallsHeld', CallBudget, width)
    <3>1. a \in Requests /\ 1 \in Nat /\ 1 <= CallsHeld[a] /\ Fits(calls, CallsHeld, CallBudget, width)
      BY <2>2 DEF BudgetInv
    <3>2. Fits(calls + 1, [CallsHeld EXCEPT ![a] = 0], CallBudget, width)
      BY <1>b, <3>1, FitsRelease
    <3> QED
      BY <2>1, <2>2, <3>2
  <2> QED
    BY <2>1, <2>2, <2>3, WorkLeaves DEF BudgetInv, Fits
<1> QED
  BY <1>2, <1>3, <1>4, <1>5, <1>6, <1>7, <1>8, <1>9, <1>10, <1>11
  DEF Next

(* However many requests of a user are under way together, they pass the daily budget
   by no more than a whole budget each, for any budgets and limits. *)
THEOREM BudgetHolds == Spec => []BudgetBounded
<1>1. RequestsInv /\ BudgetInv => BudgetBounded
  <2> SUFFICES ASSUME RequestsInv, BudgetInv PROVE BudgetBounded
    OBVIOUS
  <2>1. /\ Cardinality(Cells(CallsHeld, CallBudget)) \in Nat
        /\ Cardinality(Cells(TokensHeld, TokenTop)) \in Nat
    BY CellsFinite, Parameters, TopNat
  <2>2. calls \in Nat /\ tokens \in Nat /\ width \in Nat
    BY DEF RequestsInv, Typed, BudgetInv
  <2>3. width * CallBudget \in Nat /\ width * TokenTop \in Nat
    BY <2>2, Parameters, TopNat
  <2>4. calls <= width * CallBudget /\ tokens <= width * TokenTop
    BY <2>1, <2>2, <2>3 DEF BudgetInv, Fits
  <2>5. width * CallBudget = CallBudget * width /\ width * TokenTop = TokenTop * width
    BY <2>2, Parameters, TopNat
  <2> QED
    BY <2>4, <2>5 DEF BudgetBounded, TokenTop
<1> QED
  BY <1>1, RequestsInit, RequestsNext, BudgetInit, BudgetNext, PTL DEF Spec
-----------------------------------------------------------------------------
(* The types, and the limits they state: of the rate, of a turn, and of the usage of a
   day. *)

LimitsInv ==
  /\ mode \in {"on", "noActions", "off"}
  /\ stamps \in [0..(Window - 1) -> 0..MaxTurns]
  /\ may \in [Turns -> BOOLEAN] /\ pending \in [Turns -> BOOLEAN]
  /\ rounds \in [Turns -> 0..MaxRounds]
  /\ \A t \in Turns : count[t] + Len(asked[t]) <= MaxCalls
  /\ forgotten \subseteq Cards
  /\ width <= Cardinality(Requests) /\ faults \in 0..MaxFaults

LEMMA Limits ==
  /\ MaxRounds \in Nat /\ MaxTurns \in Nat /\ Window \in Nat /\ Window > 0 /\ Ttl \in Nat
  /\ MaxFaults \in Nat /\ MaxCalls > 0
BY CopilotAssumption

(* The starts noted this very moment are among those of the last minute. *)
LEMMA RecentHasRoom ==
  ASSUME stamps \in [0..(Window - 1) -> 0..MaxTurns], Cardinality(Recent) < MaxTurns
  PROVE  stamps[0] < MaxTurns
<1> DEFINE now == {0} \X (1..stamps[0])
<1>1. 0 \in 0..(Window - 1) /\ stamps[0] \in 0..MaxTurns
  BY Limits
<1>2. IsFiniteSet(now) /\ Cardinality(now) = stamps[0]
  <2>1. stamps[0] \in Nat
    BY <1>1
  <2> QED
    BY <2>1, ColumnSize
<1>3. now \subseteq Recent
  BY <1>1, Limits DEF Recent
<1>4. IsFiniteSet(Recent)
  <2>1. IsFiniteSet(0..(Window - 1)) /\ IsFiniteSet(1..MaxTurns)
    BY FS_Interval, Limits
  <2>2. IsFiniteSet((0..(Window - 1)) \X (1..MaxTurns))
    BY <2>1, FS_Product, Zenon
  <2> QED
    BY <2>2, FS_Subset DEF Recent
<1>5. Cardinality(now) <= Cardinality(Recent) /\ Cardinality(Recent) \in Nat
  BY <1>3, <1>4, FS_Subset, FS_CardinalityType
<1> QED
  BY <1>1, <1>2, <1>5, Limits

(* Every request that is at work is one of the requests. *)
LEMMA JoinsBound ==
  ASSUME RequestsInv, BudgetInv, width <= Cardinality(Requests),
         NEW r \in Requests, pc[r] = "idle", Joins
  PROVE  width' <= Cardinality(Requests)
<1>1. Work \cup {r} \subseteq Requests /\ r \notin Work
  BY DEF Work
<1>2. Cardinality(Work \cup {r}) = Cardinality(Work) + 1
  BY <1>1, WorkFinite, FS_AddElement
<1>3. Cardinality(Work \cup {r}) <= Cardinality(Requests)
  BY <1>1, RequestsFinite, FS_Subset
<1>4. width' = IF width < Cardinality(Work) + 1 THEN Cardinality(Work) + 1 ELSE width
  BY DEF Joins, Work
<1> QED
  BY <1>2, <1>3, <1>4

LEMMA LimitsInit == Init => LimitsInv
<1> SUFFICES ASSUME Init PROVE LimitsInv
  OBVIOUS
<1>1. /\ mode = "on" /\ stamps = [a \in 0..(Window - 1) |-> 0] /\ forgotten = {}
      /\ may = [t \in Turns |-> FALSE] /\ pending = [t \in Turns |-> FALSE]
      /\ rounds = [t \in Turns |-> 0] /\ width = 0 /\ faults = 0
      /\ \A t \in Turns : count[t] = 0 /\ asked[t] = << >>
  BY DEF Init
<1>2. Cardinality(Requests) \in Nat
  BY RequestsFinite, FS_CardinalityType
<1>3. \A t \in Turns : count[t] + Len(asked[t]) <= MaxCalls
  BY <1>1, Limits, Parameters
<1> QED
  BY <1>1, <1>2, <1>3, Limits DEF LimitsInv

LEMMA LimitsNext ==
  ASSUME RequestsInv, BudgetInv, CardsInv, LimitsInv, [Next]_vars
  PROVE  LimitsInv'
<1> USE Limits, Parameters
<1>1. \A f : Disturb(f) => faults' \in 0..MaxFaults
  BY DEF Disturb, LimitsInv
<1>2. ASSUME UNCHANGED <<mode, stamps, may, pending, rounds, count, asked, forgotten, width>>,
             faults' \in 0..MaxFaults
      PROVE  LimitsInv'
  BY <1>2 DEF LimitsInv
<1>3. CASE Time
  <2>1. stamps' \in [0..(Window - 1) -> 0..MaxTurns]
    BY <1>3 DEF Time, LimitsInv
  <2> QED
    BY <1>3, <2>1 DEF Time, LimitsInv, store, turnVars, history
<1>4. CASE Midnight \/ Settings
  BY <1>1, <1>4 DEF Midnight, Settings, LimitsInv, turnVars, history
<1>5. CASE Restart
  <2>1. /\ stamps' = [a \in DOMAIN stamps |-> 0] /\ forgotten' = forgotten \cup consumed
        /\ may' = [t \in Turns |-> FALSE] /\ pending' = [t \in Turns |-> FALSE]
        /\ rounds' = [t \in Turns |-> 0] /\ count' = [t \in Turns |-> 0]
        /\ asked' = [t \in Turns |-> << >>] /\ UNCHANGED <<mode, width>>
        /\ faults' \in 0..MaxFaults
    BY <1>1, <1>5 DEF Restart, Forget, store
  <2>2. \A t \in Turns : count'[t] = 0 /\ Len(asked'[t]) = 0
    BY <2>1
  <2> QED
    BY <2>1, <2>2 DEF LimitsInv, CardsInv
<1>6. ASSUME NEW t \in Turns, Start(t) PROVE LimitsInv'
  <2>1. stamps[0] < MaxTurns /\ stamps' = [stamps EXCEPT ![0] = @ + 1]
    BY <1>6, RecentHasRoom DEF Start, LimitsInv
  <2>2. stamps' \in [0..(Window - 1) -> 0..MaxTurns]
    BY <2>1 DEF LimitsInv
  <2>3. width' <= Cardinality(Requests)
    BY <1>6, JoinsBound DEF Start, LimitsInv
  <2>4. may' \in [Turns -> BOOLEAN]
    BY <1>6 DEF Start, LimitsInv
  <2> QED
    BY <1>6, <2>2, <2>3, <2>4 DEF Start, LimitsInv, store
<1>7. ASSUME NEW t \in Turns, Loop(t) PROVE LimitsInv'
  <2>1. rounds' \in [Turns -> 0..MaxRounds]
    BY <1>7 DEF Loop, AtLimit, LimitsInv
  <2> QED
    BY <1>7, <2>1 DEF Loop, LimitsInv, store, history
<1>8. ASSUME NEW t \in Turns, ModelAnswers(t) PROVE LimitsInv'
  <2>1. PICK n \in 0..Room(t) : \E kinds \in [1..n -> Kind] : asked' = [asked EXCEPT ![t] = kinds]
    BY <1>8 DEF ModelAnswers
  <2>2. PICK kinds \in [1..n -> Kind] : asked' = [asked EXCEPT ![t] = kinds]
    BY <2>1
  <2>3. count[t] \in Nat /\ quota[t].calls \in Nat /\ asked \in [Turns -> Seq(Kind)]
    BY DEF RequestsInv, Typed, Quota
  <2>4. n \in Nat /\ count[t] + n <= MaxCalls
    BY <2>1, <2>3 DEF Room, Lower
  <2>5. Len(kinds) = n
    BY <2>2, <2>4
  <2>6. \A s \in Turns : count[s] + Len(asked'[s]) <= MaxCalls
    <3>1. asked'[t] = kinds /\ \A s \in Turns \ {t} : asked'[s] = asked[s]
      BY <2>2, <2>3
    <3> QED
      BY <2>4, <2>5, <3>1 DEF LimitsInv
  <2> QED
    BY <1>8, <2>6 DEF ModelAnswers, LimitsInv, store, history
<1>9. ASSUME NEW t \in Turns, Call(t) PROVE LimitsInv'
  <2>1. count \in [Turns -> Nat] /\ asked \in [Turns -> Seq(Kind)] /\ asked[t] # << >>
    BY <1>9 DEF RequestsInv, Typed, Call
  <2>2. /\ asked' = [asked EXCEPT ![t] = Tail(@)]
        /\ count' = [count EXCEPT ![t] = IF Waits(t) THEN @ ELSE @ + 1]
    BY <1>9 DEF Call
  <2>3. Len(Tail(asked[t])) = Len(asked[t]) - 1 /\ Len(asked[t]) \in Nat
    BY <2>1
  <2>4. \A s \in Turns : count'[s] + Len(asked'[s]) <= MaxCalls
    BY <2>1, <2>2, <2>3 DEF LimitsInv
  <2>5. pending' \in [Turns -> BOOLEAN]
    <3>1. pending' = [pending EXCEPT ![t] = pending[t] \/ Waits(t)]
      BY <1>9 DEF Call
    <3>2. (pending[t] \/ Waits(t)) \in BOOLEAN
      BY Zenon
    <3> QED
      BY <3>1, <3>2 DEF LimitsInv
  <2> QED
    BY <1>9, <2>4, <2>5 DEF Call, LimitsInv, store
<1>10. ASSUME NEW t \in Turns, Record(t) PROVE LimitsInv'
  <2>1. \A s \in Turns : \/ may'[s] = may[s] /\ pending'[s] = pending[s] /\ rounds'[s] = rounds[s]
                            /\ count'[s] = count[s] /\ asked'[s] = asked[s]
                         \/ may'[s] = FALSE /\ pending'[s] = FALSE /\ rounds'[s] = 0
                            /\ count'[s] = 0 /\ asked'[s] = << >>
    BY <1>10 DEF Record, Forget
  <2>2. /\ may' = [s \in Turns |-> may'[s]] /\ pending' = [s \in Turns |-> pending'[s]]
        /\ rounds' = [s \in Turns |-> rounds'[s]]
    BY <1>10 DEF Record, Forget
  <2>3. Len(<< >>) = 0 /\ 0 + 0 <= MaxCalls /\ 0 \in 0..MaxRounds
    OBVIOUS
  <2>4. \A s \in Turns : /\ may'[s] \in BOOLEAN /\ pending'[s] \in BOOLEAN
                         /\ rounds'[s] \in 0..MaxRounds
                         /\ count'[s] + Len(asked'[s]) <= MaxCalls
    <3> TAKE s \in Turns
    <3>1. CASE asked'[s] = asked[s] /\ count'[s] = count[s] /\ may'[s] = may[s]
               /\ pending'[s] = pending[s] /\ rounds'[s] = rounds[s]
      BY <3>1 DEF LimitsInv
    <3>2. CASE asked'[s] = << >> /\ count'[s] = 0 /\ may'[s] = FALSE
               /\ pending'[s] = FALSE /\ rounds'[s] = 0
      BY <2>3, <3>2
    <3> QED
      BY <2>1, <3>1, <3>2
  <2> QED
    BY <1>10, <2>2, <2>4 DEF Record, LimitsInv
<1>11. ASSUME NEW t \in Turns, ModelFails(t) \/ Mint(t) \/ Disconnect(t) PROVE LimitsInv'
  BY <1>1, <1>2, <1>11 DEF ModelFails, Mint, Disconnect, LimitsInv, store, turnVars, history
<1>12. ASSUME NEW a \in Approvals, NEW k \in Cards, Accept(a, k) PROVE LimitsInv'
  <2>1. width' <= Cardinality(Requests)
    BY <1>12, JoinsBound DEF Accept, LimitsInv
  <2> QED
    BY <1>12, <2>1 DEF Accept, LimitsInv, store, turnVars
<1>13. ASSUME NEW a \in Approvals, Check(a) \/ Run(a) \/ ChargeApproved(a) PROVE LimitsInv'
  BY <1>2, <1>13 DEF Check, Run, ChargeApproved, LimitsInv, store, turnVars, history
<1>14. CASE UNCHANGED vars
  BY <1>2, <1>14 DEF vars, LimitsInv
<1> QED
  BY <1>3, <1>4, <1>5, <1>6, <1>7, <1>8, <1>9, <1>10, <1>11, <1>12, <1>13, <1>14
  DEF Next

(* The usage of a day is bounded: that many requests pass the budget by that much. *)
LEMMA UsageBound ==
  ASSUME NEW n \in Nat, NEW w \in Nat, w <= n,
         NEW c \in Nat, NEW k \in Nat, c <= CallBudget * w, k <= (TokenBudget - 1 + RoundTokens) * w
  PROVE  /\ c <= n * (CallBudget + TokenBudget + RoundTokens)
         /\ k <= n * (CallBudget + TokenBudget + RoundTokens)
<1> DEFINE all == CallBudget + TokenBudget + RoundTokens
<1>1. all \in Nat /\ CallBudget <= all /\ TokenTop <= all /\ TokenTop \in Nat
  BY Parameters, TopNat DEF TokenTop
<1>2. ASSUME NEW B \in Nat, B <= all PROVE B * w <= n * all
  <2>1. w * B <= n * B
    BY Monotone
  <2>2. B * n <= all * n
    BY <1>1, <1>2, Monotone
  <2>3. w * B = B * w /\ n * B = B * n /\ n * all = all * n
    BY <1>1
  <2>4. w * B \in Nat /\ B * n \in Nat /\ all * n \in Nat
    BY <1>1
  <2> QED
    BY <2>1, <2>2, <2>3, <2>4
<1>3. CallBudget * w <= n * all /\ TokenTop * w <= n * all
  BY <1>1, <1>2, Parameters
<1>4. CallBudget * w \in Nat /\ TokenTop * w \in Nat /\ n * all \in Nat
  BY <1>1, Parameters
<1> HIDE DEF all
<1>5. c <= CallBudget * w /\ k <= TokenTop * w
  BY DEF TokenTop
<1>6. c <= n * all /\ k <= n * all
  BY <1>3, <1>4, <1>5
<1> QED
  BY <1>6 DEF all

(* Every variable keeps its type, and with it its limit, whatever requests are under way:
   a turn keeps to its calls and rounds, the rate to its turns, and the usage of a day to
   what that many requests can charge. *)
THEOREM TypeCorrect == Spec => []TypeOK
<1>1. RequestsInv /\ BudgetInv /\ CardsInv /\ LimitsInv /\ BudgetBounded => TypeOK
  <2> SUFFICES ASSUME RequestsInv, BudgetInv, CardsInv, LimitsInv, BudgetBounded PROVE TypeOK
    OBVIOUS
  <2> USE Parameters, Limits
  <2>1. Cardinality(Requests) \in Nat /\ width \in Nat /\ calls \in Nat /\ tokens \in Nat
    BY RequestsFinite, FS_CardinalityType DEF RequestsInv, Typed, BudgetInv
  <2>2. calls <= MaxAll /\ tokens <= MaxAll
    BY <2>1, UsageBound DEF BudgetBounded, MaxAll, LimitsInv
  <2>3. MaxAll \in Nat
    BY <2>1 DEF MaxAll
  <2>4. pc \in [Requests -> {"idle", "loop", "model", "tools", "record", "check", "run", "charge"}]
    BY DEF RequestsInv, Typed, TurnPc, ApprovalPc
  <2>5. /\ count \in [Turns -> Nat] /\ spent \in [Turns -> Nat]
        /\ asked \in [Turns -> Seq(Kind)] /\ ran \in [Requests -> Nat]
        /\ quota \in [Turns -> [calls : 0..CallBudget, tokens : 0..TokenBudget]]
    BY DEF RequestsInv, Typed, Quota
  <2>6. \A t \in Turns : count[t] <= MaxCalls /\ Len(asked[t]) <= MaxCalls
    <3> TAKE t \in Turns
    <3>1. count[t] \in Nat /\ Len(asked[t]) \in Nat /\ count[t] + Len(asked[t]) <= MaxCalls
      BY <2>5 DEF LimitsInv
    <3> QED
      BY <3>1
  <2>7. \A t \in Turns : spent[t] <= TokenBudget + RoundTokens
    <3> TAKE t \in Turns
    <3>1. TurnOK(t)
      BY DEF RequestsInv
    <3>2. spent[t] \in Nat /\ quota[t].tokens \in 0..TokenBudget
      BY <2>5
    <3> QED
      BY <3>1, <3>2 DEF TurnOK
  <2>8. \A r \in Requests : ran[r] <= MaxCalls
    <3>1. ASSUME NEW t \in Turns PROVE ran[t] <= MaxCalls
      <4>1. ran[t] \in Nat /\ count[t] \in Nat /\ ran[t] <= count[t]
        BY <2>5 DEF RequestsInv, TurnOK
      <4> QED
        BY <2>6, <4>1
    <3>2. ASSUME NEW a \in Approvals PROVE ran[a] <= MaxCalls
      BY DEF RequestsInv, ApprovalOK
    <3> QED
      BY <3>1, <3>2 DEF Requests
  <2>9. asked \in [Turns -> UNION {[1..n -> Kind] : n \in 0..MaxCalls}]
    <3>1. ASSUME NEW t \in Turns
          PROVE  asked[t] \in UNION {[1..n -> Kind] : n \in 0..MaxCalls}
      <4>1. asked[t] \in [1..Len(asked[t]) -> Kind] /\ Len(asked[t]) \in 0..MaxCalls
        BY <2>5, <2>6
      <4> QED
        BY <4>1
    <3> QED
      BY <2>5, <3>1
  <2>10. count \in [Turns -> 0..MaxCalls] /\ spent \in [Turns -> 0..(TokenBudget + RoundTokens)]
         /\ ran \in [Requests -> 0..MaxCalls]
    <3>1. /\ \A t \in Turns : count[t] \in 0..MaxCalls /\ spent[t] \in 0..(TokenBudget + RoundTokens)
          /\ \A r \in Requests : ran[r] \in 0..MaxCalls
      BY <2>5, <2>6, <2>7, <2>8
    <3> QED
      BY <2>5, <3>1
  <2> QED
    <3>1. width \in 0..Cardinality(Requests) /\ calls \in 0..MaxAll /\ tokens \in 0..MaxAll
      BY <2>1, <2>2, <2>3 DEF LimitsInv
    <3> QED
      BY <2>4, <2>5, <2>9, <2>10, <3>1 DEF TypeOK, LimitsInv, CardsInv
<1>2. LimitsInv /\ RequestsInv /\ BudgetInv /\ CardsInv /\ [Next]_vars => LimitsInv'
  BY LimitsNext
<1> QED
  BY <1>1, <1>2, RequestsInit, RequestsNext, BudgetInit, BudgetNext, CardsInit, CardsNext,
     LimitsInit, BudgetHolds, PTL DEF Spec
=============================================================================
