---------------------------- MODULE SerialStore ----------------------------
(***************************************************************************)
(* What transactions promise: they take effect one at a time.  A           *)
(* transaction is shown one state of the store, collects the changes it    *)
(* wants, and either makes all of them at once to the very state it was    *)
(* shown, or makes none, ever.                                             *)
(***************************************************************************)
CONSTANTS
  Txs,          \* transactions
  Keys, Vals,   \* where records are, and what they hold
  Absent, Nil   \* no record; a change that deletes

VARIABLES
  store,    \* the records
  view,     \* the state a transaction was shown
  wanted,   \* the changes it has collected
  outcome   \* "none" before it begins, "open", "committed" or "rejected"

serialVars == <<store, view, wanted, outcome>>

Records == [Keys -> Vals \cup {Absent}]
Changes == UNION {[K -> Vals \cup {Nil}] : K \in SUBSET Keys}

Empty == [k \in Keys |-> Absent]
NoChanges == [k \in {} |-> Nil]

Changed(d, changes) ==
  [k \in Keys |-> IF k \notin DOMAIN changes THEN d[k]
                  ELSE IF changes[k] = Nil THEN Absent ELSE changes[k]]

SerialInit ==
  /\ store = Empty
  /\ view = [t \in Txs |-> Empty]
  /\ wanted = [t \in Txs |-> NoChanges]
  /\ outcome = [t \in Txs |-> "none"]

Show(t) ==
  /\ outcome[t] = "none"
  /\ outcome' = [outcome EXCEPT ![t] = "open"]
  /\ view' = [view EXCEPT ![t] = store]
  /\ UNCHANGED <<store, wanted>>

Ask(t) ==
  /\ outcome[t] = "open"
  /\ \E changes \in Changes : wanted' = [wanted EXCEPT ![t] = changes]
  /\ UNCHANGED <<store, view, outcome>>

\* All the changes at once, to the state that the transaction was shown.
Commit(t) ==
  /\ outcome[t] = "open" /\ view[t] = store
  /\ store' = Changed(store, wanted[t])
  /\ outcome' = [outcome EXCEPT ![t] = "committed"]
  /\ UNCHANGED <<view, wanted>>

Reject(t) ==
  /\ outcome[t] = "open"
  /\ outcome' = [outcome EXCEPT ![t] = "rejected"]
  /\ UNCHANGED <<store, view, wanted>>

\* Everybody else.
Other ==
  /\ store' \in Records
  /\ UNCHANGED <<view, wanted, outcome>>

SerialNext == Other \/ \E t \in Txs : Show(t) \/ Ask(t) \/ Commit(t) \/ Reject(t)

SerialSpec == SerialInit /\ [][SerialNext]_serialVars

=============================================================================
