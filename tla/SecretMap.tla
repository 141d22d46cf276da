----------------------------- MODULE SecretMap ------------------------------
(***************************************************************************)
(* What the personal store promises: a map from ids to values and one      *)
(* backup of it.  It knows no passwords: setting, changing or forgetting   *)
(* one, and signing in or out, are not steps of this module.               *)
(***************************************************************************)
CONSTANTS Id, Value, NoValue     \* NoValue is not in Value

VARIABLES
    content,     \* the secrets: id -> value or NoValue
    saved        \* those of the last backup

contentVars == <<content, saved>>

Content == [Id -> Value \cup {NoValue}]

MapInit ==
    /\ content = [i \in Id |-> NoValue]
    /\ saved = [i \in Id |-> NoValue]

Put(i, v) ==
    /\ content' = [content EXCEPT ![i] = v]
    /\ UNCHANGED saved

\* A backup holds the secrets that could be read.
Backup(readable) ==
    /\ saved' = [i \in Id |-> IF i \in readable THEN content[i] ELSE NoValue]
    /\ UNCHANGED content

\* A restore brings back some of them: those missing, or all it can write.
Restore(ids) ==
    /\ \A i \in ids : saved[i] # NoValue
    /\ content' = [i \in Id |-> IF i \in ids THEN saved[i] ELSE content[i]]
    /\ UNCHANGED saved

MapNext ==
    \/ \E i \in Id, v \in Value \cup {NoValue} : Put(i, v)
    \/ \E ids \in SUBSET Id : Backup(ids) \/ Restore(ids)

=============================================================================
