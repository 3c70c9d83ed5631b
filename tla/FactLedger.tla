------------------------------ MODULE FactLedger ------------------------------
(***************************************************************************)
(* What the fact memory promises its callers, with no store, rows, ids or  *)
(* calls: for each subject and predicate, the objects believed now and the *)
(* objects believed before.  A message is learned in one step.             *)
(***************************************************************************)
CONSTANTS
    Keys,        \* records with fields namespace, subject, predicate
    Objects,     \* what can be believed of a key
    Exclusive    \* keys that hold one object at a time

VARIABLES
    held,   \* the objects currently believed, by key
    past    \* the objects that were superseded, by key

Init ==
    /\ held = [k \in Keys |-> {}]
    /\ past = [k \in Keys |-> {}]

\* A new object takes the place of every other object of its key ...
Replace(k, v) ==
    /\ v \notin held[k]
    /\ held' = [held EXCEPT ![k] = {v}]
    /\ past' = [past EXCEPT ![k] = @ \cup held[k]]

\* ... or joins them, when the key holds several.
Accumulate(k, v) ==
    /\ v \notin held[k]
    /\ k \notin Exclusive
    /\ held' = [held EXCEPT ![k] = @ \cup {v}]
    /\ UNCHANGED past

\* A failure may retire objects and store none in their place.
Lose(k, lost) ==
    /\ lost \subseteq held[k]
    /\ held' = [held EXCEPT ![k] = @ \ lost]
    /\ past' = [past EXCEPT ![k] = @ \cup lost]

Picks(k, v, key, value, given) ==
    /\ k.namespace = key.namespace
    /\ "subject" \in given => k.subject = key.subject
    /\ "predicate" \in given => k.predicate = key.predicate
    /\ "object" \in given => v = value

\* Forgetting takes every matching object, believed now or before.  With no
\* field given it takes the namespace.
Forget(key, value, given) ==
    /\ held' = [k \in Keys |-> {v \in held[k] : ~Picks(k, v, key, value, given)}]
    /\ past' = [k \in Keys |-> {v \in past[k] : ~Picks(k, v, key, value, given)}]

\* Forgetting one fact takes one object, from the present or from the past.
ForgetOne(k, v) ==
    \/ held' = [held EXCEPT ![k] = @ \ {v}] /\ UNCHANGED past
    \/ past' = [past EXCEPT ![k] = @ \ {v}] /\ UNCHANGED held

Next ==
    \/ \E k \in Keys, v \in Objects : Replace(k, v) \/ Accumulate(k, v) \/ ForgetOne(k, v)
    \/ \E k \in Keys : \E lost \in SUBSET held[k] : Lose(k, lost)
    \/ \E key \in Keys, v \in Objects, given \in SUBSET {"subject", "predicate", "object"} :
          Forget(key, v, given)

Spec == Init /\ [][Next]_<<held, past>>

==============================================================================
