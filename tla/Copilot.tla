------------------------------ MODULE Copilot ------------------------------
(***************************************************************************)
(* The assistant as one user drives it: chat turns and approvals of gated  *)
(* tool calls, each an HTTP request of its own, against the user's daily   *)
(* budget in copilot-store.json.                                           *)
(*                                                                         *)
(* A turn reads the budget once, when it starts, and charges it once, when *)
(* it ends; requests run beside each other.  A gated tool runs only by an  *)
(* approval token, which is valid for a while and for one use; the uses    *)
(* are remembered in memory.                                               *)
(***************************************************************************)
EXTENDS Naturals, Sequences, FiniteSets

CONSTANTS
  Turns,        \* chat requests that can be alive together: a bound
  Approvals,    \* approve requests that can be alive together: a bound
  Cards,        \* approval tokens that can be minted: a bound
  CallBudget,   \* settings.dailyToolCallBudget
  TokenBudget,  \* settings.dailyTokenBudget
  MaxCalls,     \* MAX_TOOL_CALLS_PER_TURN
  MaxRounds,    \* MAX_ROUNDS_PER_TURN
  RoundTokens,  \* the most tokens one round of the model costs: a bound
  MaxTurns,     \* MAX_TURNS_PER_MINUTE
  Window,       \* TURN_RATE_WINDOW_MS
  Ttl,          \* APPROVAL_TTL_MS
  Faults,       \* the kinds of disturbance this instance allows
  MaxFaults     \* how many of them happen over a behaviour: a bound

ASSUME CopilotAssumption ==
  /\ {CallBudget, TokenBudget, MaxCalls, MaxRounds, RoundTokens, MaxTurns, Window, Ttl}
       \subseteq Nat \ {0}
  /\ IsFiniteSet(Turns) /\ IsFiniteSet(Approvals)
  /\ Turns \cap Approvals = {}
  /\ MaxFaults \in Nat

FaultKind ==
  {"midnight",   \* the day of the budget ends
   "settings",   \* an administrator changes what the user's group may do
   "disconnect", \* the client closes the stream of a turn
   "restart"}    \* the process dies and starts again

Requests == Turns \cup Approvals
(* What the model asks for: a gated tool, or a read one.  What is no call of a tool
   (unknown name, malformed arguments) is counted and not run, as a read that fails. *)
Kind == {"read", "gated"}

VARIABLES
  \* copilot-store.json
  calls, tokens,  \* the user's usage today
  mode,           \* "on", "noActions" (by group policy) or "off"
  \* memory of the process
  stamps,         \* turnTimestamps: how many there are of each age below Window
  consumed,       \* consumedTokens
  \* approval tokens, which the clients hold
  age,            \* of each card since it was minted, up to Ttl; Ttl + 1 is not minted
  \* a request
  pc,
  quota,          \* what was left of the budget when turn t started
  may,            \* the group policy as turn t read it
  count, spent, rounds,  \* what turn t has used
  asked,          \* the tool calls of this round that turn t has not handled
  pending,        \* turn t has a call that waits for an approval
  \* bookkeeping of the model
  uses,           \* how often each card was accepted
  forgotten,      \* cards whose use a restart forgot
  ran,            \* tools request r has run with success
  width,          \* the most requests that were at work together
  faults

store == <<calls, tokens, mode>>
turnVars == <<quota, may, count, spent, rounds, asked, pending>>
history == <<uses, forgotten, ran, width>>
vars == <<calls, tokens, mode, stamps, consumed, age, pc, quota, may, count, spent, rounds,
          asked, pending, uses, forgotten, ran, width, faults>>

Disturb(f) == f \in Faults /\ faults < MaxFaults /\ faults' = faults + 1

MaxAll == Cardinality(Requests) * (CallBudget + TokenBudget + RoundTokens)

TypeOK ==
  /\ calls \in 0..MaxAll /\ tokens \in 0..MaxAll
  /\ mode \in {"on", "noActions", "off"}
  /\ stamps \in [0..(Window - 1) -> 0..MaxTurns]
  /\ consumed \subseteq Cards
  /\ age \in [Cards -> 0..(Ttl + 1)]
  /\ pc \in [Requests -> {"idle", "loop", "model", "tools", "record",
                          "check", "run", "charge"}]
  /\ quota \in [Turns -> [calls : 0..CallBudget, tokens : 0..TokenBudget]]
  /\ may \in [Turns -> BOOLEAN] /\ pending \in [Turns -> BOOLEAN]
  /\ count \in [Turns -> 0..MaxCalls] /\ rounds \in [Turns -> 0..MaxRounds]
  /\ spent \in [Turns -> 0..(TokenBudget + RoundTokens)]
  /\ asked \in [Turns -> UNION {[1..n -> Kind] : n \in 0..MaxCalls}]
  /\ uses \in [Cards -> Nat] /\ forgotten \subseteq Cards /\ ran \in [Requests -> 0..MaxCalls]
  /\ width \in 0..Cardinality(Requests)
  /\ faults \in 0..MaxFaults

NoQuota == [calls |-> 0, tokens |-> 0]

Init ==
  /\ calls = 0 /\ tokens = 0 /\ mode = "on"
  /\ stamps = [a \in 0..(Window - 1) |-> 0]
  /\ consumed = {}
  /\ age = [k \in Cards |-> Ttl + 1]
  /\ pc = [r \in Requests |-> "idle"]
  /\ quota = [t \in Turns |-> NoQuota]
  /\ may = [t \in Turns |-> FALSE] /\ pending = [t \in Turns |-> FALSE]
  /\ count = [t \in Turns |-> 0] /\ rounds = [t \in Turns |-> 0]
  /\ spent = [t \in Turns |-> 0]
  /\ asked = [t \in Turns |-> << >>]
  /\ uses = [k \in Cards |-> 0] /\ forgotten = {} /\ ran = [r \in Requests |-> 0]
  /\ width = 0 /\ faults = 0

-----------------------------------------------------------------------------
Lower(m, n) == IF m < n THEN m ELSE n
Rest(budget, used) == IF used < budget THEN budget - used ELSE 0

GoTo(r, label) == pc' = [pc EXCEPT ![r] = label]

(* Request r goes to work: one more than are at work already. *)
Joins ==
  LET working == Cardinality({r \in Requests : pc[r] # "idle"}) + 1
  IN width' = IF width < working THEN working ELSE width

(* The locals of turns that are over. *)
Forget(over) ==
  LET Reset(f, none) == [t \in Turns |-> IF t \in over THEN none ELSE f[t]]
  IN /\ quota' = Reset(quota, NoQuota) /\ may' = Reset(may, FALSE)
     /\ count' = Reset(count, 0) /\ spent' = Reset(spent, 0) /\ rounds' = Reset(rounds, 0)
     /\ asked' = Reset(asked, << >>) /\ pending' = Reset(pending, FALSE)

(* recordCopilotUsage *)
Charge(t, c) ==
  /\ tokens' = tokens + t /\ calls' = calls + c

-----------------------------------------------------------------------------
(* The world *)

(* The UTC day of the usage entry, the clock, and what an administrator sets. *)
Time ==
  /\ stamps' = [a \in DOMAIN stamps |-> IF a = 0 THEN 0 ELSE stamps[a - 1]]
  /\ age' = [k \in Cards |-> IF age[k] < Ttl THEN age[k] + 1 ELSE age[k]]
  /\ UNCHANGED <<store, consumed, pc, turnVars, history, faults>>

Midnight ==
  /\ Disturb("midnight")
  /\ calls' = 0 /\ tokens' = 0
  /\ UNCHANGED <<mode, stamps, consumed, age, pc, turnVars, history>>

Settings ==
  /\ Disturb("settings")
  /\ mode' \in {"on", "noActions", "off"} \ {mode}
  /\ UNCHANGED <<calls, tokens, stamps, consumed, age, pc, turnVars, history>>

(* The process dies: what it remembers of turns and cards is gone. *)
Restart ==
  /\ Disturb("restart")
  /\ stamps' = [a \in DOMAIN stamps |-> 0]
  /\ forgotten' = forgotten \cup consumed /\ consumed' = {}
  /\ pc' = [r \in Requests |-> "idle"]
  /\ Forget(Turns)
  /\ ran' = [r \in Requests |-> 0]
  /\ UNCHANGED <<store, age, uses, width>>

-----------------------------------------------------------------------------
(* A turn: runCopilotTurn *)

(* The starts of the last minute: a cell for each. *)
Recent == {c \in (0..(Window - 1)) \X (1..MaxTurns) : c[2] <= stamps[c[1]]}

(* The checks before the loop.  A turn that is turned away for the budget has used up
   a stamp of the rate limit. *)
Start(t) ==
  LET left == [calls |-> Rest(CallBudget, calls), tokens |-> Rest(TokenBudget, tokens)]
      room == left.calls > 0 /\ left.tokens > 0
  IN
  /\ pc[t] = "idle" /\ mode # "off"
  /\ Cardinality(Recent) < MaxTurns
  /\ stamps' = [stamps EXCEPT ![0] = @ + 1]
  /\ IF room THEN GoTo(t, "loop") /\ Joins ELSE UNCHANGED <<pc, width>>
  /\ quota' = [quota EXCEPT ![t] = IF room THEN left ELSE @]
  /\ may' = [may EXCEPT ![t] = IF room THEN mode = "on" ELSE @]
  /\ UNCHANGED <<store, consumed, age, count, spent, rounds, asked, pending,
                 uses, forgotten, ran, faults>>

(* The head of the loop, at the start or after the calls of a round: its four limits. *)
AtLimit(t) ==
  \/ count[t] >= MaxCalls \/ rounds[t] >= MaxRounds
  \/ spent[t] >= quota[t].tokens \/ count[t] >= quota[t].calls

Loop(t) ==
  /\ \/ pc[t] = "loop"
     \/ pc[t] = "tools" /\ asked[t] = << >> /\ ~pending[t]
  /\ GoTo(t, IF AtLimit(t) THEN "record" ELSE "model")
  /\ rounds' = [rounds EXCEPT ![t] = IF AtLimit(t) THEN @ ELSE @ + 1]
  /\ UNCHANGED <<store, stamps, consumed, age, quota, may, count, spent, asked, pending,
                 history, faults>>

(* How many of the calls the model asks for are kept. *)
Room_Whole(t) == Lower(MaxCalls, quota[t].calls)
Room_Ceiling(t) == MaxCalls - count[t]
Room(t) == Lower(MaxCalls, quota[t].calls) - count[t]

(* The answer of the model, the tokens it cost, and its calls; without calls, or when
   the model refuses, the turn ends. *)
ModelAnswers(t) ==
  /\ pc[t] = "model"
  /\ \E cost \in 1..RoundTokens :
       \E kinds \in UNION {[1..n -> Kind] : n \in 0..Room(t)} :
         /\ spent' = [spent EXCEPT ![t] = @ + cost]
         /\ asked' = [asked EXCEPT ![t] = kinds]
         /\ GoTo(t, IF kinds = << >> THEN "record" ELSE "tools")
  /\ UNCHANGED <<store, stamps, consumed, age, quota, may, count, rounds, pending,
                 history, faults>>

ModelFails(t) ==
  /\ pc[t] = "model"
  /\ GoTo(t, "record")
  /\ UNCHANGED <<store, stamps, consumed, age, turnVars, history, faults>>

(* The first gated call that the policy allows waits for an approval and is not
   counted; every other call is counted here. *)
Waits(t) == Head(asked[t]) = "gated" /\ may[t] /\ ~pending[t]

Call(t) ==
  /\ pc[t] = "tools" /\ asked[t] # << >>
  /\ asked' = [asked EXCEPT ![t] = Tail(@)]
  /\ pending' = [pending EXCEPT ![t] = @ \/ Waits(t)]
  /\ count' = [count EXCEPT ![t] = IF Waits(t) THEN @ ELSE @ + 1]
  /\ \/ UNCHANGED ran
     \/ Head(asked[t]) = "read" /\ ran' = [ran EXCEPT ![t] = @ + 1]
  /\ UNCHANGED <<store, stamps, consumed, age, pc, quota, may, spent, rounds,
                 uses, forgotten, width, faults>>

(* After the calls: mint a card for the one that waits and end the turn. *)
Mint(t) ==
  /\ pc[t] = "tools" /\ asked[t] = << >> /\ pending[t]
  /\ \E k \in Cards : age[k] = Ttl + 1 /\ age' = [age EXCEPT ![k] = 0]
  /\ GoTo(t, "record")
  /\ UNCHANGED <<store, stamps, consumed, turnVars, history, faults>>

(* The next event cannot be sent and the generator is returned early: what the round
   of the model cost so far is not known. *)
Disconnect(t) ==
  /\ Disturb("disconnect")
  /\ pc[t] \in {"model", "tools"}
  /\ GoTo(t, "record")
  /\ UNCHANGED <<store, stamps, consumed, age, turnVars, history>>

(* The finally block. *)
Record_Disconnected(t) ==
  /\ pc[t] = "record"
  /\ IF asked[t] = << >> THEN Charge(spent[t], count[t]) ELSE UNCHANGED <<calls, tokens>>
  /\ GoTo(t, "idle")
  /\ Forget({t}) /\ ran' = [ran EXCEPT ![t] = 0]
  /\ UNCHANGED <<mode, stamps, consumed, age, uses, forgotten, width, faults>>
Record(t) ==
  /\ pc[t] = "record"
  /\ Charge(spent[t], count[t])
  /\ GoTo(t, "idle")
  /\ Forget({t}) /\ ran' = [ran EXCEPT ![t] = 0]
  /\ UNCHANGED <<mode, stamps, consumed, age, uses, forgotten, width, faults>>

-----------------------------------------------------------------------------
(* An approval: POST /api/copilot/approve *)

(* verifyApprovalToken refuses a card from the end of its lifetime on, and then
   consumeApprovalToken forgets the uses of those. *)
Valid_AtExpiry(k) == age[k] <= Ttl
Valid(k) == age[k] < Ttl
Remembered == {k \in consumed : age[k] < Ttl}

(* The decision of the user is read after the card is used up: a denial uses it up. *)
Accept(a, k) ==
  /\ pc[a] = "idle"
  /\ Valid(k) /\ k \notin Remembered
  /\ consumed' = Remembered \cup {k}
  /\ uses' = [uses EXCEPT ![k] = @ + 1]
  /\ \/ UNCHANGED <<pc, width>>
     \/ GoTo(a, "check") /\ Joins
  /\ UNCHANGED <<store, stamps, age, turnVars, forgotten, ran, faults>>

(* executeApprovedTool: enabled, budget and policy are read again. *)
Check(a) ==
  /\ pc[a] = "check"
  /\ GoTo(a, IF mode = "on" /\ calls < CallBudget THEN "run" ELSE "idle")
  /\ UNCHANGED <<store, stamps, consumed, age, turnVars, history, faults>>

Run(a) ==
  /\ pc[a] = "run"
  /\ \/ GoTo(a, "idle") /\ UNCHANGED ran
     \/ GoTo(a, "charge") /\ ran' = [ran EXCEPT ![a] = 1]
  /\ UNCHANGED <<store, stamps, consumed, age, turnVars, uses, forgotten,
                 width, faults>>

ChargeApproved(a) ==
  /\ pc[a] = "charge"
  /\ Charge(0, 1)
  /\ GoTo(a, "idle")
  /\ ran' = [ran EXCEPT ![a] = 0]
  /\ UNCHANGED <<mode, stamps, consumed, age, turnVars, uses, forgotten, width, faults>>

-----------------------------------------------------------------------------
Next ==
  \/ Time \/ Midnight \/ Settings \/ Restart
  \/ \E t \in Turns :
       \/ Start(t) \/ Loop(t) \/ ModelAnswers(t) \/ ModelFails(t) \/ Call(t)
       \/ Mint(t) \/ Disconnect(t) \/ Record(t)
  \/ \E a \in Approvals :
       \/ \E k \in Cards : Accept(a, k)
       \/ Check(a) \/ Run(a) \/ ChargeApproved(a)

Spec == Init /\ [][Next]_vars

-----------------------------------------------------------------------------
(* A card is accepted at most once, and pruning the remembered uses never makes an old
   one valid again: consumeApprovalToken.  The uses are in memory, so this does not hold
   for a card used before a restart that has not expired (the set forgotten). *)
ApprovedOnce == \A k \in Cards : uses[k] <= 1 \/ k \in forgotten

(* The budget is read when a request starts and charged when it ends, so requests of a
   user beside each other can pass it: each by no more than the whole budget, and a user
   who sends one request at a time passes it by no more than the tokens of one round.
   getCopilotUsage and recordCopilotUsage. *)
BudgetBounded ==
  /\ calls <= CallBudget * width
  /\ tokens <= (TokenBudget - 1 + RoundTokens) * width

(* No tool runs for nothing: a request that ends, by itself, by an error, by its limits
   or because the client went away, charges at least what it ran.  The finally block of
   runCopilotTurn and executeApprovedTool.  The death of the process, a fault, loses a
   charge; an audit or usage entry that cannot be written would too, and is left out. *)
Counted ==
  [][\A r \in Requests :
       pc[r] # "idle" /\ pc'[r] = "idle" /\ faults' = faults => calls' >= calls + ran[r]]_vars
=============================================================================
