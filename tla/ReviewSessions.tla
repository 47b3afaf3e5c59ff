--------------------------- MODULE ReviewSessions ---------------------------
(***************************************************************************)
(* Review sessions: login, logout and authentication of                    *)
(* src/veridoc/review/api.py, the session table of                         *)
(* src/veridoc/review/persistence/sqlite.py, and the operator's commands   *)
(* on it (src/veridoc/review/persistence/cli.py, deployment/maintenance).  *)
(*                                                                         *)
(* A request reads the actors file, then the session row, then the clock,  *)
(* and acts afterwards; the operator edits the file, restarts the service, *)
(* revokes and prunes at any time between.  The server compares an expiry  *)
(* as a time, SQL compares it as text, and the text of a time leaves out a *)
(* fraction of zero.                                                       *)
(***************************************************************************)
EXTENDS Integers, FiniteSets

CONSTANTS Actors, NoActor,
          Roles, NoRole,    \* NoRole: the actors file does not name the actor
          Sessions,         \* the digests of the tokens that logins may issue
          NoSession,
          Requests,         \* request slots: one request in flight in each
          TicksPerSecond,   \* instants the clock tells apart in one second
          TtlSeconds,       \* SESSION_TTL
          RetentionSeconds, \* what `sessions prune' may be asked to spare
          MaxTime,          \* bound on the wall clock, in ticks
          MaxEdits          \* bound on the edits of the actors file

ASSUME ActorAssumption == NoActor \notin Actors /\ NoRole \notin Roles
ASSUME SessionAssumption == NoSession \notin Sessions
ASSUME TimeAssumption ==
    /\ TicksPerSecond \in Nat \ {0}
    /\ TtlSeconds \in Nat \ {0}
    /\ RetentionSeconds \subseteq Nat
    /\ MaxTime \in Nat
    /\ MaxEdits \in Nat

-----------------------------------------------------------------------------
(* Times.                                                                  *)

Second(t) == t \div TicksPerSecond
Fraction(t) == t % TicksPerSecond

(* `<' of the texts _format_datetime makes: the dates and seconds decide;  *)
(* within one second, "05Z" is greater than any "05.250000Z", as "." comes *)
(* before "Z".                                                             *)
TextLess(s, t) ==
    \/ Second(s) < Second(t)
    \/ /\ Second(s) = Second(t)
       /\ Fraction(s) # 0
       /\ Fraction(t) = 0 \/ Fraction(s) < Fraction(t)

-----------------------------------------------------------------------------
(* Rows, and the actors file.                                              *)

Credential == 0..MaxEdits   \* the first, the second ... secret of an actor

(* An entry of the file: the actor's role and present secret.              *)
Entry == [role : Roles \cup {NoRole}, secret : Credential]

(* A row of review_sessions, with the secret its login presented.          *)
Row == [actor : Actors, expires : Nat, revoked : BOOLEAN, secret : Credential]

NoRow == [actor |-> NoActor, expires |-> 0, revoked |-> FALSE, secret |-> 0]

Request == [kind : {"login", "logout", "act"}, actor : Actors \cup {NoActor},
            secret : Credential, digest : Sessions \cup {NoSession}]

Stage == {"none", "edited", "restarted", "done"}

Step == {"idle", "directory", "issue", "insert", "revoke", "resolve", "check",
         "act"}

VARIABLES
    now,        \* the wall clock
    sessions,   \* the rows of review_sessions, by digest
    cookies,    \* the sessions some client was given
    actors,     \* the actors file
    edits,      \* how often the operator has changed it
    pc,         \* the next step of each request
    req,        \* the request: its kind, and its actor and secret or its digest
    known,      \* the actors file as the request read it, and when
    seen,       \* the session row it read, or the row it is about to insert
    cli,        \* the operator's command that runs, and the time it took
    arrived,    \* at its arrival: was its session usable, how old the file was
    rotation    \* how far the operator is with locking out an old secret

requests == <<pc, req, known, seen, arrived>>
vars == <<now, sessions, cookies, actors, edits, pc, req, known, seen, cli, arrived,
          rotation>>

(* is_session_active, of the row resolve_session returned.                 *)
IsActive(row, t) == row # NoRow /\ ~row.revoked /\ t < row.expires

NoCommand == [op |-> "none", actor |-> NoActor, at |-> 0]

(* A request that carries the cookie of a session.                         *)
Carrying(kind, s) == [kind |-> kind, actor |-> NoActor, secret |-> 0, digest |-> s]

Idle == Carrying("act", NoSession)

-----------------------------------------------------------------------------
(* Requests.                                                               *)

Goto(r, step) == pc' = [pc EXCEPT ![r] = step]

NoFile == [actors |-> [a \in Actors |-> [role |-> NoRole, secret |-> 0]], edits |-> 0]

(* The request is answered, and what it had read is dropped.               *)
End(r) ==
    /\ pc' = [pc EXCEPT ![r] = "idle"]
    /\ req' = [req EXCEPT ![r] = Idle]
    /\ known' = [known EXCEPT ![r] = NoFile]
    /\ seen' = [seen EXCEPT ![r] = NoRow]
    /\ arrived' = [arrived EXCEPT ![r] = [usable |-> FALSE, edits |-> 0]]

Begin(r, q, step) ==
    /\ pc[r] = "idle"
    /\ Goto(r, step)
    /\ req' = [req EXCEPT ![r] = q]
    /\ arrived' = [arrived EXCEPT ![r] =
                       [usable |-> q.kind # "login" /\ IsActive(sessions[q.digest], now),
                        edits |-> edits]]
    /\ UNCHANGED <<now, sessions, cookies, actors, edits, known, seen, cli, rotation>>

(* A login presents a secret of some actor, perhaps a former one; its      *)
(* session gets a digest nobody has (token_urlsafe).                       *)
Unused(s) ==
    /\ s \notin cookies
    /\ \A r \in Requests : req[r].kind = "login" => req[r].digest # s

Login(r) ==
    \E a \in Actors, s \in Sessions : \E c \in 0..actors[a].secret :
        /\ Unused(s)
        /\ Begin(r, [kind |-> "login", actor |-> a, secret |-> c, digest |-> s],
                 "directory")

(* Other requests carry the cookie of a session that was issued, and may   *)
(* be revoked, expired or pruned by now.                                   *)
Send(r) ==
    \E s \in cookies :
        \/ Begin(r, Carrying("logout", s), "revoke")
        \/ Begin(r, Carrying("act", s), "directory")

(* Mutant: an actors file read once, when the process starts.              *)
FirstDirectory == [actors |-> [a \in Actors |-> [role |-> CHOOSE x \in Roles : TRUE,
                                                 secret |-> 0]],
                   edits |-> 0]

(* ReviewActorDirectory.from_environment, for every request anew.          *)
LoadDirectory == [actors |-> actors, edits |-> edits]

(* authenticate_actor.                                                     *)
Authenticates(q, file) == file[q.actor].role # NoRole /\ file[q.actor].secret = q.secret

ReadDirectory(r) ==
    /\ pc[r] = "directory"
    /\ \/ /\ req[r].kind = "act"
          /\ Goto(r, "resolve")
          /\ known' = [known EXCEPT ![r] = LoadDirectory]
          /\ UNCHANGED <<req, seen, arrived>>
       \/ /\ req[r].kind = "login"
          /\ Authenticates(req[r], LoadDirectory.actors)
          /\ Goto(r, "issue")
          /\ UNCHANGED <<req, known, seen, arrived>>
       \/ /\ req[r].kind = "login"
          /\ ~Authenticates(req[r], LoadDirectory.actors)
          /\ End(r)
    /\ UNCHANGED <<now, sessions, cookies, actors, edits, cli, rotation>>

(* issue_session fixes the expiry, create_session inserts the row.         *)
Issue(r) ==
    /\ pc[r] = "issue"
    /\ seen' = [seen EXCEPT ![r] =
                   [actor |-> req[r].actor,
                    expires |-> now + TtlSeconds * TicksPerSecond,
                    revoked |-> FALSE, secret |-> req[r].secret]]
    /\ Goto(r, "insert")
    /\ UNCHANGED <<now, sessions, cookies, actors, edits, req, known, cli, arrived, rotation>>

Insert(r) ==
    /\ pc[r] = "insert"
    /\ sessions' = [sessions EXCEPT ![req[r].digest] = seen[r]]
    /\ cookies' = cookies \cup {req[r].digest}
    /\ End(r)
    /\ UNCHANGED <<now, actors, edits, cli, rotation>>

(* Mutant: INSERT OR REPLACE.                                              *)
Upserted(s) == [sessions EXCEPT ![s] = [sessions[s] EXCEPT !.revoked = TRUE]]

(* revoke_session: a repeat, or an unknown digest, changes nothing.        *)
Revoked(s) ==
    IF sessions[s] = NoRow THEN sessions
    ELSE [sessions EXCEPT ![s] = [sessions[s] EXCEPT !.revoked = TRUE]]

Logout(r) ==
    /\ pc[r] = "revoke"
    /\ sessions' = Revoked(req[r].digest)
    /\ End(r)
    /\ UNCHANGED <<now, cookies, actors, edits, cli, rotation>>

(* require_review_actor: the row, then the clock and the file.             *)
Resolve(r) ==
    /\ pc[r] = "resolve"
    /\ seen' = [seen EXCEPT ![r] = sessions[req[r].digest]]
    /\ Goto(r, "check")
    /\ UNCHANGED <<now, sessions, cookies, actors, edits, req, known, cli, arrived, rotation>>

Admits(r) == IsActive(seen[r], now) /\ known[r].actors[seen[r].actor].role # NoRole

Check(r) ==
    /\ pc[r] = "check"
    /\ \/ Admits(r) /\ Goto(r, "act") /\ UNCHANGED <<req, known, seen, arrived>>
       \/ ~Admits(r) /\ End(r)
    /\ UNCHANGED <<now, sessions, cookies, actors, edits, cli, rotation>>

(* The operation itself, under the role of the entry it read.              *)
Act(r) ==
    /\ pc[r] = "act"
    /\ End(r)
    /\ UNCHANGED <<now, sessions, cookies, actors, edits, cli, rotation>>

(* The actors file or the store cannot be read, or the lock is not had:    *)
(* the request is answered 503.                                            *)
Unavailable(r) ==
    /\ pc[r] \in {"directory", "insert", "revoke", "resolve"}
    /\ End(r)
    /\ UNCHANGED <<now, sessions, cookies, actors, edits, cli, rotation>>

-----------------------------------------------------------------------------
(* The operator.                                                           *)

NoRotation == [stage |-> "none", at |-> 0]

(* The actors file is replaced: an actor has another role, is dropped or   *)
(* taken in again, or has a new secret.                                    *)
Edit ==
    /\ edits < MaxEdits
    /\ edits' = edits + 1
    /\ \E a \in Actors :
          \/ /\ \E x \in Roles \cup {NoRole} :
                   actors' = [actors EXCEPT ![a] = [role |-> x, secret |-> actors[a].secret]]
             /\ UNCHANGED rotation
          \/ /\ actors' = [actors EXCEPT ![a] = [role |-> actors[a].role,
                                                 secret |-> actors[a].secret + 1]]
             /\ rotation' = [rotation EXCEPT ![a] = [stage |-> "edited", at |-> 0]]
    /\ UNCHANGED <<now, sessions, cookies, pc, req, known, seen, cli, arrived>>

(* docker restart: requests and commands in flight end where they are.     *)
Restart ==
    /\ pc' = [r \in Requests |-> "idle"]
    /\ req' = [r \in Requests |-> Idle]
    /\ known' = [r \in Requests |-> NoFile]
    /\ seen' = [r \in Requests |-> NoRow]
    /\ arrived' = [r \in Requests |-> [usable |-> FALSE, edits |-> 0]]
    /\ cli' = NoCommand
    /\ rotation' = [a \in Actors |-> IF rotation[a].stage = "edited"
                                     THEN [stage |-> "restarted", at |-> 0]
                                     ELSE rotation[a]]
    /\ UNCHANGED <<now, sessions, cookies, actors, edits>>

(* sessions revoke --actor-id, sessions prune (also the last step of       *)
(* veridoc-backup): each takes the time, then runs one statement.          *)

(* Mutant: datetime.now(UTC) + timedelta.                                  *)
CutoffAhead(d) == now + d * TicksPerSecond

Cutoff(d) == now - d * TicksPerSecond

StartCommand ==
    /\ cli.op = "none"
    /\ \/ \E a \in Actors : cli' = [op |-> "revoke", actor |-> a, at |-> now]
       \/ \E d \in RetentionSeconds :
             cli' = [op |-> "prune", actor |-> NoActor, at |-> Cutoff(d)]
    /\ UNCHANGED <<now, sessions, cookies, actors, edits, pc, req, known, seen, arrived, rotation>>

(* Mutant: WHERE expires_at < ?.                                           *)
ExpiredBy(row, t) == TextLess(row.expires, t)

(* revoke_actor_sessions: WHERE ... revoked_at IS NULL AND expires_at > ?. *)
Outlives(row, t) == TextLess(t, row.expires)

RevokeActor ==
    /\ cli.op = "revoke"
    /\ sessions' = [s \in Sessions |->
                       IF /\ sessions[s].actor = cli.actor
                          /\ ~sessions[s].revoked
                          /\ Outlives(sessions[s], cli.at)
                       THEN [sessions[s] EXCEPT !.revoked = TRUE]
                       ELSE sessions[s]]
    /\ rotation' = [rotation EXCEPT ![cli.actor] =
                       IF @.stage = "restarted" THEN [stage |-> "done", at |-> cli.at] ELSE @]
    /\ cli' = NoCommand
    /\ UNCHANGED <<now, cookies, actors, edits, pc, req, known, seen, arrived>>

(* prune_sessions: WHERE expires_at < ?.                                   *)
Prunable(row, t) == TextLess(row.expires, t)

Prune ==
    /\ cli.op = "prune"
    /\ sessions' = [s \in Sessions |->
                       IF sessions[s] # NoRow /\ Prunable(sessions[s], cli.at)
                       THEN NoRow ELSE sessions[s]]
    /\ cli' = NoCommand
    /\ UNCHANGED <<now, cookies, actors, edits, pc, req, known, seen, arrived, rotation>>

(* sessions revoke --digest.                                               *)
RevokeDigest ==
    /\ \E s \in Sessions : sessions' = Revoked(s)
    /\ UNCHANGED <<now, cookies, actors, edits, pc, req, known, seen, cli, arrived, rotation>>

Tick ==
    /\ now < MaxTime
    /\ now' = now + 1
    /\ UNCHANGED <<sessions, cookies, actors, edits, pc, req, known, seen, cli, arrived, rotation>>

-----------------------------------------------------------------------------
Init ==
    /\ now = 0
    /\ sessions = [s \in Sessions |-> NoRow]
    /\ cookies = {}
    /\ actors \in [Actors -> [role : Roles, secret : {0}]]
    /\ edits = 0
    /\ pc = [r \in Requests |-> "idle"]
    /\ req = [r \in Requests |-> Idle]
    /\ known = [r \in Requests |-> NoFile]
    /\ seen = [r \in Requests |-> NoRow]
    /\ cli = NoCommand
    /\ arrived = [r \in Requests |-> [usable |-> FALSE, edits |-> 0]]
    /\ rotation = [a \in Actors |-> NoRotation]

Advance(r) ==
    \/ ReadDirectory(r) \/ Issue(r) \/ Insert(r) \/ Logout(r)
    \/ Resolve(r) \/ Check(r) \/ Act(r)

Next ==
    \/ \E r \in Requests : Login(r) \/ Send(r) \/ Advance(r) \/ Unavailable(r)
    \/ Edit \/ Restart
    \/ StartCommand \/ RevokeActor \/ Prune \/ RevokeDigest
    \/ Tick

Spec == Init /\ [][Next]_vars

-----------------------------------------------------------------------------
(* Properties.                                                             *)

(* Every variable keeps to its type; a session somebody holds was inserted,*)
(* and only a login writes a row.                                          *)
TypeOK ==
    /\ now \in Nat
    /\ sessions \in [Sessions -> Row \cup {NoRow}]
    /\ cookies \subseteq Sessions
    /\ actors \in [Actors -> Entry]
    /\ edits \in Credential
    /\ pc \in [Requests -> Step]
    /\ req \in [Requests -> Request]
    /\ known \in [Requests -> [actors : [Actors -> Entry], edits : Credential]]
    /\ seen \in [Requests -> Row \cup {NoRow}]
    /\ cli \in [op : {"none", "revoke", "prune"}, actor : Actors \cup {NoActor}, at : Int]
    /\ arrived \in [Requests -> [usable : BOOLEAN, edits : Credential]]
    /\ rotation \in [Actors -> [stage : Stage, at : Int]]
    /\ \A s \in Sessions : sessions[s] # NoRow => s \in cookies

(* A request acts only for a session that was usable when the request      *)
(* arrived, and under a role from a file no older than the request: once a *)
(* logout, a revocation or an edit of the file is acknowledged, whatever   *)
(* is sent afterwards is refused, though the request reads the file, the   *)
(* row and the clock one after the other while all three change.           *)
FreshAuthority ==
    \A r \in Requests : pc[r] = "act" =>
        /\ arrived[r].usable
        /\ known[r].edits >= arrived[r].edits
        /\ known[r].actors[seen[r].actor].role # NoRole

(* docs/runbook.md, 4.3: new secret, restart, revoke.  After that no       *)
(* session obtained with the old secret is usable, but for one in the last *)
(* second of its life, which SQL's comparison of texts may pass over.      *)
RotationLocksOut ==
    \A a \in Actors, s \in Sessions :
        /\ rotation[a].stage = "done"
        /\ sessions[s].actor = a
        /\ sessions[s].secret < actors[a].secret
        /\ IsActive(sessions[s], now)
        => Second(sessions[s].expires) = Second(rotation[a].at)

(* Pruning takes no session that can still be used, again but for its last *)
(* second, whatever happens between the command's clock and its DELETE.    *)
PrunedAreOver ==
    [][\A s \in Sessions :
          sessions[s] # NoRow /\ sessions'[s] = NoRow =>
              Second(sessions[s].expires) <= Second(now)]_vars
=============================================================================
