------------------------- MODULE DocumentTypeSchemas -------------------------
(***************************************************************************)
(* What the document types of a workspace promise to whoever uploads       *)
(* documents of them: a type appears with all the fields it was created    *)
(* with, gains fields one at a time, never loses one while it is there,    *)
(* and goes with all of them, for good.                                    *)
(***************************************************************************)
CONSTANTS
  TypeIds,   \* document types
  Fields     \* field definitions, each with the type it is "of" and its "key"

VARIABLES
  state,     \* "absent", "shown" or "gone"
  tracking,  \* the types that track the expiry of their documents
  schema     \* the fields of the types that are shown

vars == <<state, tracking, schema>>

DistinctKeys(F) == \A f, g \in F : f.of = g.of /\ f.key = g.key => f = g

Init ==
  /\ state \in [TypeIds -> {"absent", "shown", "gone"}]
  /\ tracking \subseteq {t \in TypeIds : state[t] = "shown"}
  /\ schema \subseteq {f \in Fields : state[f.of] = "shown"}
  /\ DistinctKeys(schema)

Publish(t) ==
  /\ state[t] = "absent"
  /\ state' = [state EXCEPT ![t] = "shown"]
  /\ tracking' \in {tracking, tracking \cup {t}}
  /\ \E F \in SUBSET {f \in Fields : f.of = t} :
       DistinctKeys(F) /\ schema' = schema \cup F

Extend(f) ==
  /\ state[f.of] = "shown"
  /\ \A g \in schema : g.of = f.of => g.key # f.key
  /\ schema' = schema \cup {f}
  /\ UNCHANGED <<state, tracking>>

Retrack(t) ==
  /\ state[t] = "shown"
  /\ tracking' \in {tracking \cup {t}, tracking \ {t}}
  /\ UNCHANGED <<state, schema>>

Retire(t) ==
  /\ state[t] = "shown"
  /\ state' = [state EXCEPT ![t] = "gone"]
  /\ tracking' = tracking \ {t}
  /\ schema' = {f \in schema : f.of # t}

Next ==
  \/ \E t \in TypeIds : Publish(t) \/ Retrack(t) \/ Retire(t)
  \/ \E f \in Fields : Extend(f)

Spec == Init /\ [][Next]_vars
=============================================================================
