------------------------------- MODULE Requests -------------------------------
(***************************************************************************)
(* The blocking requests of ConnectionManager for contract details and     *)
(* market rules, and the two caches of core/contracts.py they fill:        *)
(* resolve_conid and get_tick_table.                                       *)
(*                                                                         *)
(* A request clears its event and its buffer, sends, and waits with a      *)
(* timeout; the callbacks of the reader thread append to the buffer and    *)
(* set the event without a look at the request id.  TWS answers in the     *)
(* order it was asked: `wire` holds what is on its way back.  Requests     *)
(* take their ids from the counter of OrderIds, as orders do.              *)
(***************************************************************************)
EXTENDS OrderIds, Ticks

CONSTANTS
  Contracts,  \* contracts asked for, each with its own cache key and conId
  WithConId,  \* those whose conId the caller has: resolve_conid returns it
  Rules,      \* market rule ids
  RulesOf,    \* marketRuleIds of each contract, without repetition
  TableOf,    \* price increments of each rule
  Fifty,      \* the reference price 50.0
  Fills,      \* fill prices a stop is computed from
  Losses,     \* stop losses, as in Fraction
  Nothing,    \* no contract, no rule, no cache entry
  MaxOnWire   \* bound: messages on their way back at one time

ASSUME RequestsAssumption ==
  /\ MaxOnWire \in Nat
  /\ WithConId \subseteq Contracts
  /\ RulesOf \in [Contracts -> Seq(Rules)]
  /\ Nothing \notin Contracts \cup Rules

ASSUME TicksAssumption ==
  /\ DOMAIN TableOf = Rules
  /\ \A r \in Rules : Published(TableOf[r])
  /\ Fifty \in Nat

ASSUME StopsAssumption ==
  /\ Fills \subseteq Nat
  /\ Losses \subseteq 1..9999

VARIABLES
  wire,               \* external: answers on their way, first come first
  contract_details,   \* _contract_details
  details_event,      \* _contract_details_event
  market_rules,       \* _market_rules: the rule whose table is held
  rule_event,         \* _market_rule_event
  op,                 \* the call in progress: "resolve" or "table"
  contract,           \* its argument
  rpc,                \* its place
  toTry,              \* unique_rule_ids not yet tried
  best,               \* best_table, named by its rule
  resolved_conid,     \* _resolved_conid_cache
  tick_size,          \* _tick_size_cache, a table named by its rule
  requestIds,         \* history: ids sent with a request
  overdue,            \* history: a wait ended with its answer on the way
  silent,             \* history: rules TWS did not answer for in this call
  rewindable          \* history: a refresh after a request

requestVars ==
  <<wire, contract_details, details_event, market_rules, rule_event, op,
    contract, rpc, toTry, best, resolved_conid, tick_size, requestIds, overdue,
    silent, rewindable>>
bufferVars == <<contract_details, details_event, market_rules, rule_event>>
callVars == <<op, contract, toTry, best>>
cacheVars == <<resolved_conid, tick_size>>
historyVars == <<requestIds, overdue, silent, rewindable>>
allVars == <<idVars, requestVars>>

Message == [type : {"details", "end"}, of : Contracts]
             \cup [type : {"rule", "ruleSet"}, of : Rules]

RequestsTypeOK ==
  /\ wire \in Seq(Message)
  /\ contract_details \in Seq(Contracts)
  /\ details_event \in BOOLEAN
  /\ market_rules \in [Rules -> Rules \cup {Nothing}]
  /\ rule_event \in BOOLEAN
  /\ op \in {"none", "resolve", "table"}
  /\ contract \in Contracts \cup {Nothing}
  /\ rpc \in {"idle", "ask", "details", "rules", "rule"}
  /\ toTry \in Seq(Rules)
  /\ best \in Rules \cup {Nothing}
  /\ resolved_conid \in [Contracts -> Contracts \cup {Nothing}]
  /\ tick_size \in [Contracts -> Rules \cup {Nothing}]
  /\ requestIds \subseteq Id
  /\ overdue \in BOOLEAN
  /\ silent \subseteq Rules
  /\ rewindable \in BOOLEAN

RequestsInit ==
  /\ Init
  /\ wire = <<>>
  /\ contract_details = <<>>
  /\ details_event = FALSE
  /\ market_rules = [r \in Rules |-> Nothing]
  /\ rule_event = FALSE
  /\ op = "none"
  /\ contract = Nothing
  /\ rpc = "idle"
  /\ toTry = <<>>
  /\ best = Nothing
  /\ resolved_conid = [c \in Contracts |-> Nothing]
  /\ tick_size = [c \in Contracts |-> Nothing]
  /\ requestIds = {}
  /\ overdue = FALSE
  /\ silent = {}
  /\ rewindable = FALSE

-----------------------------------------------------------------------------
(* Faulty variants: buffer and event, or the event, not cleared; the entry *)
(* deleted instead of emptied; a wait without a timeout.                   *)
KeepDetails == UNCHANGED <<contract_details, details_event>>

KeepRuleEvent(r) ==
  /\ UNCHANGED rule_event
  /\ market_rules' = [market_rules EXCEPT ![r] = Nothing]

DeleteRule(r) ==
  /\ rule_event' = FALSE
  /\ market_rules' = [s \in DOMAIN market_rules \ {r} |-> market_rules[s]]

WaitWithoutTimeout == FALSE

-----------------------------------------------------------------------------
(* resolve_conid and get_tick_table: nothing to do for what is cached.     *)
(* The guard on ids is the bound.                                          *)
Call(name, c) ==
  /\ rpc = "idle"
  /\ mainPc = "ready"
  /\ nextorderId <= MaxId
  /\ MaxId \notin placed
  /\ op' = name
  /\ contract' = c
  /\ rpc' = "ask"
  /\ UNCHANGED <<toTry, best>>

(* The call returns and its locals are gone.                               *)
Return ==
  /\ rpc' = "idle"
  /\ op' = "none"
  /\ contract' = Nothing
  /\ toTry' = <<>>
  /\ best' = Nothing
  /\ silent' = {}

(* get_contract_details_sync: clear, empty the buffer; next_order_id and   *)
(* the sending follow.                                                     *)
ClearDetails ==
  /\ details_event' = FALSE
  /\ contract_details' = <<>>

Resolve(c) ==
  /\ c \notin WithConId
  /\ resolved_conid[c] = Nothing
  /\ Call("resolve", c)
  /\ ClearDetails
  /\ UNCHANGED <<idVars, wire, market_rules, rule_event, cacheVars,
                 historyVars>>

TickTable(c) ==
  /\ c \in WithConId
  /\ tick_size[c] = Nothing
  /\ Call("table", c)
  /\ ClearDetails
  /\ UNCHANGED <<idVars, wire, market_rules, rule_event, cacheVars,
                 historyVars>>

(* reqContractDetails.  TWS sends the details and their end, or an error,  *)
(* which no callback turns into an event.                                  *)
SendDetailsRequest ==
  /\ rpc = "ask"
  /\ UseForRequest
  /\ requestIds' = requestIds \cup {oid}
  /\ \/ /\ Len(wire) + 2 <= MaxOnWire
        /\ wire' = wire \o <<[type |-> "details", of |-> contract],
                             [type |-> "end", of |-> contract]>>
     \/ UNCHANGED wire
  /\ rpc' = "details"
  /\ UNCHANGED <<bufferVars, callVars, cacheVars, overdue, silent, rewindable>>

(* What the callers do with the list returned: the first entry counts.     *)
UseDetails ==
  LET cd == contract_details[1] IN
    IF contract_details = <<>>
      THEN Return /\ UNCHANGED cacheVars
      ELSE \/ /\ op = "resolve"
              /\ resolved_conid' = [resolved_conid EXCEPT ![contract] = cd]
              /\ Return
              /\ UNCHANGED tick_size
           \/ /\ op = "table"
              /\ toTry' = RulesOf[cd]
              /\ rpc' = "rules"
              /\ UNCHANGED <<cacheVars, op, contract, best, silent>>

DetailsReturn ==
  /\ rpc = "details"
  /\ details_event
  /\ UseDetails
  /\ UNCHANGED <<idVars, wire, bufferVars, requestIds, overdue, rewindable>>

DetailsTimeOut ==
  /\ rpc = "details"
  /\ ~details_event
  /\ UseDetails
  /\ overdue' = (overdue \/ wire # <<>>)
  /\ UNCHANGED <<idVars, wire, bufferVars, requestIds, rewindable>>

(* get_market_rule_sync for the next rule: clear, empty the entry, send.   *)
ClearRule(r) ==
  /\ rule_event' = FALSE
  /\ market_rules' = [market_rules EXCEPT ![r] = Nothing]

AskRule ==
  /\ rpc = "rules"
  /\ toTry # <<>>
  /\ ClearRule(Head(toTry))
  /\ \/ /\ Len(wire) + 2 <= MaxOnWire
        /\ wire' = wire \o <<[type |-> "rule", of |-> Head(toTry)],
                             [type |-> "ruleSet", of |-> Head(toTry)]>>
        /\ UNCHANGED silent
     \/ /\ silent' = silent \cup {Head(toTry)}
        /\ UNCHANGED wire
  /\ rpc' = "rule"
  /\ UNCHANGED <<idVars, contract_details, details_event, callVars, cacheVars,
                 requestIds, overdue, rewindable>>

(* An empty table is skipped; of the others the coarsest is kept.          *)
TickAt50 == [r \in Rules |-> ReferenceTick(TableOf[r], Fifty)]

Coarser(r) == TickAt50[r] > TickAt50[best]

UseTable ==
  LET table == market_rules[Head(toTry)] IN
    /\ best' = IF table = Nothing THEN best
               ELSE IF best = Nothing \/ Coarser(table) THEN table
               ELSE best
    /\ toTry' = Tail(toTry)
    /\ rpc' = "rules"

RuleReturns ==
  /\ rpc = "rule"
  /\ rule_event
  /\ UseTable
  /\ UNCHANGED <<idVars, wire, bufferVars, op, contract, cacheVars,
                 historyVars>>

RuleTimesOut ==
  /\ rpc = "rule"
  /\ ~rule_event
  /\ UseTable
  /\ overdue' = (overdue \/ wire # <<>>)
  /\ UNCHANGED <<idVars, wire, bufferVars, op, contract, cacheVars, requestIds,
                 silent, rewindable>>

(* The best table, if there is one, is kept for the session.               *)
CacheTable ==
  /\ rpc = "rules"
  /\ toTry = <<>>
  /\ tick_size' = IF best = Nothing THEN tick_size
                                    ELSE [tick_size EXCEPT ![contract] = best]
  /\ Return
  /\ UNCHANGED <<idVars, wire, bufferVars, resolved_conid, requestIds,
                 overdue, rewindable>>

-----------------------------------------------------------------------------
(* The reader thread: contractDetails, contractDetailsEnd, and marketRule, *)
(* which stores the table ("rule") and then sets the event ("ruleSet").    *)
Deliver ==
  /\ wire # <<>>
  /\ LET msg == Head(wire) IN
       \/ /\ msg.type = "details"
          /\ contract_details' = Append(contract_details, msg.of)
          /\ UNCHANGED <<details_event, market_rules, rule_event>>
       \/ /\ msg.type = "end"
          /\ details_event' = TRUE
          /\ UNCHANGED <<contract_details, market_rules, rule_event>>
       \/ /\ msg.type = "rule"
          /\ market_rules' = [market_rules EXCEPT ![msg.of] = msg.of]
          /\ UNCHANGED <<contract_details, details_event, rule_event>>
       \/ /\ msg.type = "ruleSet"
          /\ rule_event' = TRUE
          /\ UNCHANGED <<contract_details, details_event, market_rules>>
  /\ wire' = Tail(wire)
  /\ UNCHANGED <<idVars, callVars, rpc, cacheVars, historyVars>>

(* The id counter, used by orders between the calls and by the requests.   *)
TakeId ==
  /\ rpc \in {"idle", "ask"}
  /\ ReadId \/ WriteId
  /\ UNCHANGED requestVars

OrderBetweenCalls ==
  /\ rpc = "idle"
  /\ UseForOrder
  /\ UNCHANGED requestVars

RefreshBetweenCalls ==
  /\ rpc = "idle"
  /\ Refresh
  /\ rewindable' = (rewindable \/ requestIds # {})
  /\ UNCHANGED <<wire, bufferVars, callVars, rpc, cacheVars, requestIds,
                 overdue, silent>>

EndRefresh ==
  /\ RefreshReturns \/ RefreshTimesOut
  /\ UNCHANGED requestVars

CallStep ==
  \/ SendDetailsRequest
  \/ DetailsReturn
  \/ DetailsTimeOut
  \/ AskRule
  \/ RuleReturns
  \/ RuleTimesOut
  \/ CacheTable

RequestsNext ==
  \/ \E c \in Contracts : Resolve(c) \/ TickTable(c)
  \/ CallStep
  \/ Deliver
  \/ TakeId
  \/ OrderBetweenCalls
  \/ RefreshBetweenCalls
  \/ EndRefresh
  \/ NextValidId /\ UNCHANGED requestVars

RequestsSpec == RequestsInit /\ [][RequestsNext]_allVars

(* Every wait of a call has a timeout.                                     *)
RequestsFairSpec ==
  RequestsSpec /\ WF_allVars(CallStep) /\ WF_allVars(TakeId)

-----------------------------------------------------------------------------
(* The conId cached for a contract is its own, as long as no answer comes  *)
(* after its request has given up.                                         *)
ResolvedIsOwn ==
  overdue \/ \A c \in Contracts : resolved_conid[c] \in {c, Nothing}

(* "pick the one with the COARSEST tick": a table is cached for a contract *)
(* when it is of one of its rules and no coarser one was answered for.     *)
TickTableIsCoarsest ==
  [][\A c \in Contracts :
       overdue \/ tick_size'[c] \in {tick_size[c], Nothing} \/
         LET rules == {RulesOf[c][i] : i \in DOMAIN RulesOf[c]} IN
           /\ tick_size'[c] \in rules
           /\ \A r \in rules \ silent : TickAt50[r] <= TickAt50[tick_size'[c]]
    ]_allVars

(* A stop priced with a cached table is one the exchange accepts, also     *)
(* when fill, stop before rounding and stop lie in different bands.        *)
StopsConform ==
  \A c \in Contracts : tick_size[c] # Nothing =>
    LET t == TableOf[tick_size[c]] IN
      \A fill \in Fills, loss \in Losses :
        Conforms(t, StopPrice(t, fill, loss))

(* A stop loss of n percent gives one price, written as 0.0n or as n: the  *)
(* two normalizations leave no value between them, 1 included.             *)
PercentIsFraction ==
  \A c \in Contracts : tick_size[c] # Nothing =>
    LET t == TableOf[tick_size[c]] IN
      \A fill \in Fills, loss \in Losses : 100 * loss \in Losses =>
        StopPrice(t, fill, loss) = StopPrice(t, fill, 100 * loss)

(* An order never carries the id of an earlier request, whose errors it    *)
(* would find under its own key of order_errors: refresh_order_id, which   *)
(* forgets the requests, is called before them and answered in time.       *)
NoSharedIds ==
  late \/ rewindable \/ placed \cap requestIds = {}

(* A call returns, whatever TWS leaves unanswered.                         *)
CallReturns == (rpc # "idle") ~> (rpc = "idle")

=============================================================================
