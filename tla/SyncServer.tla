---------------------------- MODULE SyncServer ------------------------------
(***************************************************************************)
(* The sync server (sinduk/server.py) for one vault: its row in the table  *)
(* vault_blobs, the tokens, and the threads that handle requests.          *)
(*                                                                         *)
(* A step is one SQL statement, since the SELECT of save_blob runs in      *)
(* autocommit mode and the transaction starts at the UPDATE; the one of    *)
(* require_token is in the step in which a request arrives.  A blob is     *)
(* known by its number, which stands for its checksum: every export draws  *)
(* a new salt, so that two exports never have the same bytes.  The rows of *)
(* server_audit are left out (nothing reads them), not the failure to      *)
(* write one, which turns the answer into an error.                        *)
(***************************************************************************)
EXTENDS Naturals

CONSTANTS
    Token,       \* the tokens created on the server
    NoToken,     \* a missing or unknown token
    Handler,     \* threads of the server, one request each
    Overlap,     \* TRUE: requests are handled concurrently
    Repeats,     \* TRUE: a proxy may send a push it holds again
    Revocable,   \* tokens an administrator may revoke
    MaxBlob,     \* bound on the bundles exported
    MaxVersion   \* bound on the versions stored

ASSUME ServerAssumption ==
    /\ NoToken \notin Token
    /\ Revocable \subseteq Token
    /\ Overlap \in BOOLEAN /\ Repeats \in BOOLEAN
    /\ MaxBlob \in Nat /\ MaxVersion \in Nat

VARIABLES
    stored,      \* blob and checksum of the row, 0 for no row
    version,     \* its version, 0 for no row
    revoked,     \* tokens with active = 0
    phase,       \* where each handler is
    request,     \* what it handles
    result       \* the row it has read, then its answer

serverVars == <<stored, version, revoked, phase, request, result>>

\* A push carries a blob, a pull the checksum of If-None-Match (0 for none).
Request == [kind : {"push", "pull", "none"}, token : Token \cup {NoToken},
            blob : 0..MaxBlob]
NoRequest == [kind |-> "none", token |-> NoToken, blob |-> 0]

\* A status code (0 before the answer) with a version and a checksum.
Result == [code : {0, 200, 304, 401, 404, 500}, version : 0..MaxVersion,
           blob : 0..MaxBlob]
NoResult == [code |-> 0, version |-> 0, blob |-> 0]
Failed(code) == [NoResult EXCEPT !.code = code]

HandlerPhase == {"free", "push", "write", "pull", "done"}

ServerTypeOK ==
    /\ stored \in 0..MaxBlob /\ version \in 0..MaxVersion
    /\ revoked \subseteq Token
    /\ phase \in [Handler -> HandlerPhase]
    /\ request \in [Handler -> Request]
    /\ result \in [Handler -> Result]

ServerInit ==
    /\ stored = 0 /\ version = 0
    /\ revoked = {}
    /\ phase = [h \in Handler |-> "free"]
    /\ request = [h \in Handler |-> NoRequest]
    /\ result = [h \in Handler |-> NoResult]

-----------------------------------------------------------------------------

Enter(h, p, r) ==
    /\ phase' = [phase EXCEPT ![h] = p]
    /\ result' = [result EXCEPT ![h] = r]

\* A request arrives at a free thread and passes require_token, or does not.
Receive(h, r) ==
    /\ phase[h] = "free"
    /\ Overlap \/ \A g \in Handler : phase[g] \in {"free", "done"}
    /\ request' = [request EXCEPT ![h] = r]
    /\ IF r.token \in Token \ revoked
       THEN Enter(h, r.kind, NoResult)
       ELSE Enter(h, "done", Failed(401))
    /\ UNCHANGED <<stored, version, revoked>>

\* The handler has logged the request and answers, unless log_audit raises.
Answer(h, v, b) ==
    \/ Enter(h, "done", [code |-> 200, version |-> v, blob |-> b])
    \/ Enter(h, "done", Failed(500))

\* The thread has sent its answer, or lost it.
Release(h) ==
    /\ phase[h] = "done"
    /\ request' = [request EXCEPT ![h] = NoRequest]
    /\ Enter(h, "free", NoResult)
    /\ UNCHANGED <<stored, version, revoked>>

\* Variant: the content is not compared.
SelectAlwaysNewer(h) ==
    /\ phase[h] = "push"
    /\ Enter(h, "write", [code |-> 0, version |-> version, blob |-> stored])
    /\ UNCHANGED <<stored, version, revoked, request>>

\* save_blob reads the row.  Identical content does not bump the version.
SelectVersion(h) ==
    /\ phase[h] = "push"
    /\ IF version # 0 /\ stored = request[h].blob
       THEN Answer(h, version, stored)
       ELSE Enter(h, "write", [code |-> 0, version |-> version, blob |-> stored])
    /\ UNCHANGED <<stored, version, revoked, request>>

\* Variant: the version read is written back.
SameVersionRow(h) ==
    LET v == IF result[h].version = 0 THEN 1 ELSE result[h].version IN
    /\ phase[h] = "write"
    /\ result[h].version = 0 => version = 0
    /\ stored' = request[h].blob /\ version' = v
    /\ Answer(h, v, request[h].blob)
    /\ UNCHANGED <<revoked, request>>

\* The UPDATE, or for a new vault the INSERT, which fails if there is a row.
WriteRow(h) ==
    LET v == result[h].version + 1 IN
    /\ phase[h] = "write"
    /\ v <= MaxVersion
    /\ result[h].version = 0 => version = 0
    /\ stored' = request[h].blob /\ version' = v
    /\ Answer(h, v, request[h].blob)
    /\ UNCHANGED <<revoked, request>>

\* Variant: the answer names the version of the next push.
ReadRowNext(h) ==
    /\ phase[h] = "pull"
    /\ IF version = 0 THEN Enter(h, "done", Failed(404))
       ELSE IF request[h].blob = stored THEN Enter(h, "done", Failed(304))
       ELSE Answer(h, version + 1, stored)
    /\ UNCHANGED <<stored, version, revoked, request>>

\* get_blob and the answer to a pull; the audit row of a 304 is not written.
ReadRow(h) ==
    /\ phase[h] = "pull"
    /\ IF version = 0 THEN Enter(h, "done", Failed(404))
       ELSE IF request[h].blob = stored THEN Enter(h, "done", Failed(304))
       ELSE Answer(h, version, stored)
    /\ UNCHANGED <<stored, version, revoked, request>>

\* A statement raises: the database is locked, the row exists.
HandlerFails(h) ==
    /\ phase[h] \in {"push", "write", "pull"}
    /\ Enter(h, "done", Failed(500))
    /\ UNCHANGED <<stored, version, revoked, request>>

\* revoke_token, run by an administrator beside the server.
Revoke(k) ==
    /\ k \in Revocable \ revoked
    /\ revoked' = revoked \cup {k}
    /\ UNCHANGED <<stored, version, phase, request, result>>

\* The server is killed and started again: requests in flight are lost.
ServerRestart ==
    /\ phase' = [h \in Handler |-> "free"]
    /\ request' = [h \in Handler |-> NoRequest]
    /\ result' = [h \in Handler |-> NoResult]
    /\ UNCHANGED <<stored, version, revoked>>

HandlerStep(h) ==
    \/ SelectVersion(h) \/ WriteRow(h) \/ ReadRow(h) \/ HandlerFails(h)

=============================================================================
