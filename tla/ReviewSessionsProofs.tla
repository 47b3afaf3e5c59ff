------------------------- MODULE ReviewSessionsProofs -------------------------
(***************************************************************************)
(* ReviewSessions, proved for any number of actors, sessions and requests, *)
(* any clock and any lifetime.                                             *)
(*                                                                         *)
(* The argument: nothing makes a session usable again that is not, so what *)
(* a request reads after its arrival admits it only if it was usable when  *)
(* the request arrived; and a login that read the actors file after a      *)
(* rotation has the new secret, so the rows with the old one are those the *)
(* revocation finds.                                                       *)
(***************************************************************************)
EXTENDS ReviewSessions, TLAPS

-----------------------------------------------------------------------------
(* The invariant.                                                          *)

CommandInv ==
    /\ cli.at <= now
    /\ cli.op = "revoke" => cli.actor \in Actors

FileInv == \A a \in Actors : actors[a].secret <= edits

(* No two logins are given one token.                                      *)
LoginsApart ==
    \A r, q \in Requests :
        req[r].kind = "login" /\ req[q].kind = "login" /\ r # q
        => req[r].digest # req[q].digest

(* The kind of request there is at each step, and whose session it names.  *)
KindInv(r) ==
    /\ pc[r] = "idle" => req[r].kind # "login"
    /\ pc[r] \in {"issue", "insert"} => req[r].kind = "login"
    /\ pc[r] \in {"resolve", "check", "act"} => req[r].kind = "act"
    /\ pc[r] = "revoke" => req[r].kind = "logout"
    /\ pc[r] = "directory" => req[r].kind \in {"login", "act"}
    /\ req[r].kind = "login" => req[r].actor \in Actors
    /\ req[r].kind = "login" => req[r].digest \in Sessions /\ req[r].digest \notin cookies
    /\ pc[r] # "idle" /\ req[r].kind # "login" => req[r].digest \in cookies

(* What it has read.                                                       *)
ReadInv(r) ==
    /\ arrived[r].edits <= edits
    /\ pc[r] \in {"resolve", "check", "act"} => known[r].edits >= arrived[r].edits
    /\ pc[r] = "insert" =>
          seen[r] \in Row /\ seen[r].actor = req[r].actor /\ seen[r].secret = req[r].secret
    /\ pc[r] # "idle" /\ req[r].kind # "login" /\ ~arrived[r].usable
       => ~IsActive(sessions[req[r].digest], now)
    /\ pc[r] = "check" /\ ~arrived[r].usable => ~IsActive(seen[r], now)
    /\ pc[r] = "act" => arrived[r].usable /\ known[r].actors[seen[r].actor].role # NoRole

LoggingIn(r) == pc[r] \in {"issue", "insert"}

(* Since the restart only the new secret gets a session, and the           *)
(* revocation has left no row with an old one that it could see.           *)
RotationInv ==
    \A a \in Actors :
        /\ rotation[a].stage \in {"restarted", "done"} =>
              \A r \in Requests : LoggingIn(r) /\ req[r].actor = a =>
                  req[r].secret = actors[a].secret
        /\ rotation[a].stage = "done" =>
              /\ rotation[a].at <= now
              /\ \A s \in Sessions :
                    sessions[s].actor = a /\ sessions[s].secret < actors[a].secret
                    => sessions[s].revoked \/ ~TextLess(rotation[a].at, sessions[s].expires)

IInv ==
    /\ TypeOK
    /\ CommandInv
    /\ FileInv
    /\ LoginsApart
    /\ \A r \in Requests : KindInv(r) /\ ReadInv(r)
    /\ RotationInv

-----------------------------------------------------------------------------
(* Arithmetic of times.                                                    *)

LEMMA DivBounds ==
    ASSUME NEW a \in Int, NEW t \in Nat \ {0}
    PROVE  a \div t \in Int /\ (a \div t) * t <= a /\ a < (a \div t) * t + t
<1>1. /\ a \div t \in Int /\ a % t \in Int /\ 0 <= a % t /\ a % t < t
      /\ a = t * (a \div t) + (a % t)
  OBVIOUS
<1> QED  BY <1>1

LEMMA TimesMonotone ==
    ASSUME NEW a \in Int, NEW b \in Int, NEW t \in Nat \ {0}, a <= b
    PROVE  a * t <= b * t
OBVIOUS

(* A later instant is not in an earlier second.                            *)
LEMMA SecondMonotone ==
    ASSUME NEW a \in Int, NEW b \in Int, a <= b
    PROVE  Second(a) \in Int /\ Second(b) \in Int /\ Second(a) <= Second(b)
<1> DEFINE t == TicksPerSecond
           p == a \div t
           q == b \div t
<1>1. t \in Nat \ {0}
  BY TimeAssumption
<1>2. p \in Int /\ q \in Int /\ p * t <= a /\ b < q * t + t
  BY <1>1, DivBounds
<1>3. Second(a) = p /\ Second(b) = q
  BY DEF Second
<1> HIDE DEF p, q, t
<1>4. ASSUME q < p PROVE FALSE
  <2>1. q + 1 \in Int /\ q + 1 <= p
    BY <1>2, <1>4
  <2>2. (q + 1) * t <= p * t
    BY <1>1, <1>2, <2>1, TimesMonotone
  <2>3. (q + 1) * t = q * t + t /\ p * t \in Int /\ q * t \in Int
    BY <1>1, <1>2
  <2> QED  BY <1>1, <1>2, <2>2, <2>3
<1> QED  BY <1>2, <1>3, <1>4

(* What comes before as text is in no later second.                        *)
LEMMA TextOrder ==
    ASSUME NEW a \in Int, NEW b \in Int
    PROVE  /\ TextLess(a, b) => Second(a) <= Second(b)
           /\ a <= b /\ ~TextLess(a, b) => Second(a) = Second(b)
<1>1. Second(a) \in Int /\ Second(b) \in Int
  BY SecondMonotone
<1>2. a <= b => Second(a) <= Second(b)
  BY SecondMonotone
<1> QED  BY <1>1, <1>2 DEF TextLess

LEMMA LifetimeType ==
    ASSUME NEW t \in Nat
    PROVE  t + TtlSeconds * TicksPerSecond \in Nat
<1>1. TtlSeconds \in Nat /\ TicksPerSecond \in Nat
  BY TimeAssumption
<1>2. TtlSeconds * TicksPerSecond \in Nat
  BY <1>1
<1> QED  BY <1>2

LEMMA CutoffPast ==
    ASSUME NEW d \in RetentionSeconds, now \in Nat
    PROVE  Cutoff(d) \in Int /\ Cutoff(d) <= now
<1>1. d \in Nat /\ TicksPerSecond \in Nat
  BY TimeAssumption
<1>2. d * TicksPerSecond \in Nat
  BY <1>1
<1> QED  BY <1>2 DEF Cutoff

-----------------------------------------------------------------------------
(* Rows only ever lose: a row is left alone, revoked or deleted.           *)

Declines(s) ==
    \/ sessions'[s] = sessions[s]
    \/ sessions'[s] = NoRow
    \/ sessions[s] # NoRow /\ sessions'[s] = [sessions[s] EXCEPT !.revoked = TRUE]

LEMMA NoRowIsNone ==
    /\ NoRow \notin Row
    /\ NoRow.actor = NoActor /\ NoActor \notin Actors
    /\ \A x : ~IsActive(NoRow, x)
  BY ActorAssumption DEF NoRow, Row, IsActive

LEMMA RevokedRow ==
    ASSUME NEW row \in Row
    PROVE  /\ [row EXCEPT !.revoked = TRUE] \in Row
           /\ [row EXCEPT !.revoked = TRUE].revoked
           /\ [row EXCEPT !.revoked = TRUE].actor = row.actor
  BY DEF Row

(* A session that is not usable does not become usable again.              *)
LEMMA UnusableStays ==
    ASSUME NEW s \in Sessions, sessions \in [Sessions -> Row \cup {NoRow}],
           Declines(s), now \in Nat, now' \in Nat, now <= now',
           ~IsActive(sessions[s], now)
    PROVE  ~IsActive(sessions'[s], now')
<1>1. CASE sessions'[s] = NoRow
  BY <1>1, NoRowIsNone
<1>2. CASE sessions[s] # NoRow /\ sessions'[s] = [sessions[s] EXCEPT !.revoked = TRUE]
  <2>1. sessions'[s].revoked
    BY <1>2, RevokedRow
  <2> QED  BY <2>1 DEF IsActive
<1>3. CASE sessions'[s] = sessions[s] /\ sessions[s] # NoRow
  <2>1. sessions[s].expires \in Nat
    BY <1>3 DEF Row
  <2> QED  BY <1>3, <2>1 DEF IsActive
<1> QED  BY <1>1, <1>2, <1>3 DEF Declines

LEMMA RevokedDeclines ==
    ASSUME sessions \in [Sessions -> Row \cup {NoRow}],
           NEW d \in Sessions, sessions' = Revoked(d)
    PROVE  \A s \in Sessions : Declines(s)
  BY DEF Revoked, Declines

(* Rows that decline keep to their type, and stay rows of issued sessions. *)
LEMMA DeclineTypes ==
    ASSUME sessions \in [Sessions -> Row \cup {NoRow}],
           DOMAIN sessions' = Sessions, sessions' = [s \in Sessions |-> sessions'[s]],
           \A s \in Sessions : Declines(s)
    PROVE  /\ sessions' \in [Sessions -> Row \cup {NoRow}]
           /\ \A s \in Sessions : sessions'[s] # NoRow => sessions[s] # NoRow
<1>1. ASSUME NEW s \in Sessions
      PROVE  sessions'[s] \in Row \cup {NoRow}
             /\ (sessions'[s] # NoRow => sessions[s] # NoRow)
  <2>1. CASE sessions[s] # NoRow /\ sessions'[s] = [sessions[s] EXCEPT !.revoked = TRUE]
    BY <2>1, RevokedRow
  <2> QED  BY <2>1 DEF Declines
<1> QED  BY <1>1

-----------------------------------------------------------------------------
(* What a step leaves of the invariant where it changes nothing.           *)

(* A request that takes no part in a step.                                 *)
LEMMA Bystander ==
    ASSUME TypeOK, NEW q \in Requests, KindInv(q), ReadInv(q),
           pc'[q] = pc[q], req'[q] = req[q], known'[q] = known[q],
           seen'[q] = seen[q], arrived'[q] = arrived[q],
           edits' \in Nat, edits <= edits',
           now' \in Nat, now <= now',
           cookies \subseteq cookies',
           req[q].kind = "login" => req[q].digest \notin cookies',
           \A s \in cookies : Declines(s)
    PROVE  KindInv(q)' /\ ReadInv(q)'
<1>1. KindInv(q)'
  BY DEF KindInv
<1>2. /\ arrived[q].edits \in Nat /\ edits \in Nat /\ now \in Nat
      /\ cookies \subseteq Sessions /\ sessions \in [Sessions -> Row \cup {NoRow}]
      /\ seen[q] \in Row \cup {NoRow}
  BY DEF TypeOK, Credential
<1>3. arrived[q].edits <= edits'
  BY <1>2 DEF ReadInv
<1>4. pc[q] # "idle" /\ req[q].kind # "login" /\ ~arrived[q].usable
      => ~IsActive(sessions'[req[q].digest], now')
  <2> SUFFICES ASSUME pc[q] # "idle", req[q].kind # "login", ~arrived[q].usable
               PROVE  ~IsActive(sessions'[req[q].digest], now')
    OBVIOUS
  <2>1. req[q].digest \in cookies
    BY DEF KindInv
  <2>2. ~IsActive(sessions[req[q].digest], now)
    BY DEF ReadInv
  <2>3. Declines(req[q].digest) /\ req[q].digest \in Sessions
    BY <1>2, <2>1
  <2> QED  BY <1>2, <2>2, <2>3, UnusableStays
<1>5. pc[q] = "check" /\ ~arrived[q].usable => ~IsActive(seen[q], now')
  <2> SUFFICES ASSUME pc[q] = "check", ~arrived[q].usable, seen[q] # NoRow
               PROVE  ~IsActive(seen[q], now')
    BY NoRowIsNone
  <2>1. ~IsActive(seen[q], now) /\ seen[q].expires \in Nat
    BY <1>2 DEF ReadInv, Row
  <2> QED  BY <1>2, <2>1 DEF IsActive
<1> QED  BY <1>1, <1>3, <1>4, <1>5 DEF ReadInv

(* A step whose rows are old, revoked or deleted ones, or the one of a     *)
(* login, and after which no login has a secret it had not before.         *)
LEMMA RotationStays ==
    ASSUME TypeOK, RotationInv, rotation' = rotation, now' \in Nat, now <= now',
           \A a \in Actors : actors'[a].secret = actors[a].secret,
           \A r \in Requests : LoggingIn(r)' =>
              \/ LoggingIn(r) /\ req'[r] = req[r]
              \/ req'[r].actor \in Actors
                 /\ req'[r].secret = actors[req'[r].actor].secret,
           \A s \in Sessions :
              \/ Declines(s)
              \/ \E r \in Requests : /\ LoggingIn(r)
                                     /\ sessions'[s].actor = req[r].actor
                                     /\ sessions'[s].secret = req[r].secret
    PROVE  RotationInv'
<1> SUFFICES ASSUME NEW a \in Actors
             PROVE  /\ rotation[a].stage \in {"restarted", "done"} =>
                          \A r \in Requests : LoggingIn(r)' /\ req'[r].actor = a =>
                              req'[r].secret = actors'[a].secret
                    /\ rotation[a].stage = "done" =>
                          /\ rotation[a].at <= now'
                          /\ \A s \in Sessions :
                                /\ sessions'[s].actor = a
                                /\ sessions'[s].secret < actors'[a].secret
                                => \/ sessions'[s].revoked
                                   \/ ~TextLess(rotation[a].at, sessions'[s].expires)
  BY DEF RotationInv
<1>1. ASSUME rotation[a].stage \in {"restarted", "done"}, NEW r \in Requests,
             LoggingIn(r)', req'[r].actor = a
      PROVE  req'[r].secret = actors'[a].secret
  BY <1>1 DEF RotationInv
<1>2. ASSUME rotation[a].stage = "done"
      PROVE  rotation[a].at <= now'
  <2>1. rotation[a].at <= now /\ rotation[a].at \in Int /\ now \in Nat
    BY <1>2 DEF RotationInv, TypeOK
  <2> QED  BY <2>1
<1>3. ASSUME rotation[a].stage = "done", NEW s \in Sessions,
             sessions'[s].actor = a, sessions'[s].secret < actors'[a].secret
      PROVE  sessions'[s].revoked \/ ~TextLess(rotation[a].at, sessions'[s].expires)
  <2>1. CASE sessions'[s] = sessions[s]
    BY <1>3, <2>1 DEF RotationInv
  <2>2. CASE sessions'[s] = NoRow
    BY <1>3, <2>2, NoRowIsNone
  <2>3. CASE sessions[s] # NoRow /\ sessions'[s] = [sessions[s] EXCEPT !.revoked = TRUE]
    BY <2>3, RevokedRow DEF TypeOK
  <2>4. CASE \E r \in Requests : /\ LoggingIn(r)
                                 /\ sessions'[s].actor = req[r].actor
                                 /\ sessions'[s].secret = req[r].secret
    <3>1. sessions'[s].secret = actors[a].secret
      BY <1>3, <2>4 DEF RotationInv
    <3>2. actors[a].secret \in Nat
      BY DEF TypeOK, Entry, Credential
    <3> QED  BY <1>3, <3>1, <3>2
  <2> QED  BY <2>1, <2>2, <2>3, <2>4 DEF Declines
<1> QED  BY <1>1, <1>2, <1>3

-----------------------------------------------------------------------------
(* Steps of one request.                                                   *)

RequestTypes ==
    /\ pc \in [Requests -> Step]
    /\ req \in [Requests -> Request]
    /\ known \in [Requests -> [actors : [Actors -> Entry], edits : Credential]]
    /\ seen \in [Requests -> Row \cup {NoRow}]
    /\ arrived \in [Requests -> [usable : BOOLEAN, edits : Credential]]

OthersWait(r) ==
    \A q \in Requests \ {r} :
        /\ pc'[q] = pc[q] /\ req'[q] = req[q] /\ known'[q] = known[q]
        /\ seen'[q] = seen[q] /\ arrived'[q] = arrived[q]

LEMMA Values ==
    /\ 0 \in Credential
    /\ Idle \in Request /\ Idle.kind = "act"
    /\ NoFile \in [actors : [Actors -> Entry], edits : Credential]
    /\ [usable |-> FALSE, edits |-> 0] \in [usable : BOOLEAN, edits : Credential]
<1>1. 0 \in Credential
  BY TimeAssumption DEF Credential
<1>2. Idle \in Request /\ Idle.kind = "act"
  BY <1>1 DEF Idle, Carrying, Request
<1>3. NoFile \in [actors : [Actors -> Entry], edits : Credential]
  BY <1>1 DEF NoFile, Entry
<1> QED  BY <1>1, <1>2, <1>3

(* The answer leaves the slot idle.                                        *)
LEMMA EndKeeps ==
    ASSUME TypeOK, NEW r \in Requests, End(r), edits' = edits
    PROVE  /\ OthersWait(r) /\ RequestTypes'
           /\ pc'[r] = "idle" /\ req'[r] = Idle
           /\ KindInv(r)' /\ ReadInv(r)'
<1>1. OthersWait(r)
  BY DEF End, OthersWait, TypeOK
<1>2. RequestTypes'
  BY Values DEF End, RequestTypes, TypeOK, Step
<1>3. pc'[r] = "idle" /\ req'[r] = Idle /\ arrived'[r] = [usable |-> FALSE, edits |-> 0]
  BY DEF End, TypeOK
<1>4. KindInv(r)'
  BY <1>3, Values DEF KindInv
<1>5. ReadInv(r)'
  BY <1>3 DEF ReadInv, TypeOK, Credential
<1> QED  BY <1>1, <1>2, <1>3, <1>4, <1>5

LEMMA RequestStep ==
    ASSUME IInv, NEW r \in Requests, OthersWait(r), RequestTypes',
           UNCHANGED <<now, sessions, cookies, actors, edits, cli, rotation>>,
           KindInv(r)', ReadInv(r)',
           \/ req'[r].kind # "login"
           \/ req'[r] = req[r]
           \/ Unused(req'[r].digest),
           LoggingIn(r)' =>
              \/ LoggingIn(r) /\ req'[r] = req[r]
              \/ req'[r].actor \in Actors /\ req'[r].secret = actors[req'[r].actor].secret
    PROVE  IInv'
<1> USE DEF IInv
<1>1. TypeOK'
  BY DEF TypeOK, RequestTypes
<1>2. CommandInv' /\ FileInv'
  BY DEF CommandInv, FileInv
<1>3. \A s \in Sessions : Declines(s)
  BY DEF Declines
<1>4. ASSUME NEW q \in Requests
      PROVE  KindInv(q)' /\ ReadInv(q)'
  <2>1. CASE q # r
    <3>1. KindInv(q) /\ ReadInv(q)
      OBVIOUS
    <3>2. /\ edits' \in Nat /\ edits <= edits' /\ now' \in Nat /\ now <= now'
          /\ cookies \subseteq cookies' /\ \A s \in cookies : Declines(s)
      BY <1>3 DEF TypeOK, Credential
    <3>3. req[q].kind = "login" => req[q].digest \notin cookies'
      BY <3>1 DEF KindInv
    <3>4. pc'[q] = pc[q] /\ req'[q] = req[q] /\ known'[q] = known[q]
          /\ seen'[q] = seen[q] /\ arrived'[q] = arrived[q]
      BY <2>1 DEF OthersWait
    <3> QED  BY <3>1, <3>2, <3>3, <3>4, Bystander
  <2> QED  BY <2>1
<1>5. LoginsApart'
  BY DEF LoginsApart, OthersWait, Unused
<1>6. RotationInv'
  <2>1. \A q \in Requests : LoggingIn(q)' =>
           \/ LoggingIn(q) /\ req'[q] = req[q]
           \/ req'[q].actor \in Actors /\ req'[q].secret = actors[req'[q].actor].secret
    BY DEF OthersWait, LoggingIn
  <2>2. now' \in Nat /\ now <= now'
    BY DEF TypeOK
  <2> QED  BY <1>3, <2>1, <2>2, RotationStays
<1> QED  BY <1>1, <1>2, <1>4, <1>5, <1>6

(* A request is answered and changes nothing else.                         *)
LEMMA EndsOnly ==
    ASSUME IInv, NEW r \in Requests, End(r),
           UNCHANGED <<now, sessions, cookies, actors, edits, cli, rotation>>
    PROVE  IInv'
<1>1. TypeOK
  BY DEF IInv
<1>2. /\ OthersWait(r) /\ RequestTypes'
      /\ pc'[r] = "idle" /\ req'[r] = Idle
      /\ KindInv(r)' /\ ReadInv(r)'
  BY <1>1, EndKeeps
<1>3. req'[r].kind # "login" /\ ~LoggingIn(r)'
  BY <1>2, Values DEF LoggingIn
<1> QED  BY <1>2, <1>3, RequestStep

(* One that goes on: what Goto does.                                       *)
LEMMA GotoKeeps ==
    ASSUME TypeOK, NEW r \in Requests, NEW step \in Step, Goto(r, step)
    PROVE  /\ pc' \in [Requests -> Step] /\ pc'[r] = step
           /\ \A q \in Requests \ {r} : pc'[q] = pc[q]
  BY DEF TypeOK, Goto

LEMMA BeginKeeps ==
    ASSUME IInv, NEW r \in Requests, NEW q \in Request, NEW step \in {"directory", "revoke"},
           Begin(r, q, step),
           q.kind = "login" =>
              q.actor \in Actors /\ q.digest \in Sessions /\ Unused(q.digest),
           q.kind # "login" => q.digest \in cookies,
           step = "revoke" <=> q.kind = "logout"
    PROVE  IInv'
<1>1. TypeOK
  BY DEF IInv
<1>2. /\ pc[r] = "idle"
      /\ req' = [req EXCEPT ![r] = q]
      /\ arrived' = [arrived EXCEPT ![r] =
                        [usable |-> q.kind # "login" /\ IsActive(sessions[q.digest], now),
                         edits |-> edits]]
      /\ UNCHANGED <<now, sessions, cookies, actors, edits, known, seen, cli, rotation>>
  BY DEF Begin
<1>3. /\ pc' \in [Requests -> Step] /\ pc'[r] = step
      /\ \A o \in Requests \ {r} : pc'[o] = pc[o]
  BY <1>1, GotoKeeps DEF Begin, Step
<1>4. req' \in [Requests -> Request] /\ req'[r] = q
  BY <1>1, <1>2 DEF TypeOK
<1>5. /\ arrived' \in [Requests -> [usable : BOOLEAN, edits : Credential]]
      /\ arrived'[r].edits = edits
      /\ arrived'[r].usable <=> q.kind # "login" /\ IsActive(sessions[q.digest], now)
  <2> DEFINE u == q.kind # "login" /\ IsActive(sessions[q.digest], now)
  <2>1. u \in BOOLEAN
    BY DEF IsActive
  <2>2. [usable |-> u, edits |-> edits] \in [usable : BOOLEAN, edits : Credential]
    BY <1>1, <2>1 DEF TypeOK
  <2> HIDE DEF u
  <2>3. arrived' = [arrived EXCEPT ![r] = [usable |-> u, edits |-> edits]]
    BY <1>2 DEF u
  <2>4. arrived' \in [Requests -> [usable : BOOLEAN, edits : Credential]]
    BY <1>1, <2>2, <2>3 DEF TypeOK
  <2>5. arrived'[r] = [usable |-> u, edits |-> edits]
    BY <1>1, <2>3 DEF TypeOK
  <2> QED  BY <2>4, <2>5 DEF u
<1>6. RequestTypes'
  BY <1>1, <1>2, <1>3, <1>4, <1>5 DEF RequestTypes, TypeOK
<1>7. OthersWait(r)
  BY <1>1, <1>2, <1>3 DEF OthersWait, TypeOK
<1>8. KindInv(r)'
  <2>1. q.kind \in {"login", "logout", "act"}
    BY DEF Request
  <2> QED  BY <1>2, <1>3, <1>4, <2>1 DEF KindInv, Unused
<1>9. ReadInv(r)'
  <2>1. edits \in Nat
    BY <1>1 DEF TypeOK, Credential
  <2> QED  BY <1>2, <1>3, <1>4, <1>5, <2>1 DEF ReadInv
<1>10. ~LoggingIn(r)'
  BY <1>3 DEF LoggingIn
<1>11. \/ req'[r].kind # "login"
       \/ req'[r] = req[r]
       \/ Unused(req'[r].digest)
  BY <1>4
<1>12. UNCHANGED <<now, sessions, cookies, actors, edits, cli, rotation>>
  BY <1>2
<1> QED  BY <1>6, <1>7, <1>8, <1>9, <1>10, <1>11, <1>12, RequestStep

LEMMA LoginKeeps ==
    ASSUME IInv, NEW r \in Requests, Login(r)
    PROVE  IInv'
<1>1. PICK a \in Actors, s \in Sessions : \E c \in 0..actors[a].secret :
         /\ Unused(s)
         /\ Begin(r, [kind |-> "login", actor |-> a, secret |-> c, digest |-> s], "directory")
  BY DEF Login
<1>2. PICK c \in 0..actors[a].secret :
         /\ Unused(s)
         /\ Begin(r, [kind |-> "login", actor |-> a, secret |-> c, digest |-> s], "directory")
  BY <1>1
<1> DEFINE q == [kind |-> "login", actor |-> a, secret |-> c, digest |-> s]
<1>3. c \in Credential
  BY TimeAssumption DEF IInv, TypeOK, Entry, Credential
<1>4. q \in Request
  BY <1>3 DEF Request
<1>5. q.kind = "login" /\ q.actor \in Actors /\ q.digest = s /\ Begin(r, q, "directory")
  BY <1>2
<1> HIDE DEF q
<1> QED  BY <1>2, <1>4, <1>5, BeginKeeps

LEMMA SendKeeps ==
    ASSUME IInv, NEW r \in Requests, Send(r)
    PROVE  IInv'
<1>1. PICK s \in cookies :
         \/ Begin(r, Carrying("logout", s), "revoke")
         \/ Begin(r, Carrying("act", s), "directory")
  BY DEF Send
<1>2. s \in Sessions
  BY DEF IInv, TypeOK
<1>3. Carrying("logout", s) \in Request /\ Carrying("act", s) \in Request
  BY <1>2, Values DEF Carrying, Request
<1>4. /\ Carrying("logout", s).kind = "logout" /\ Carrying("logout", s).digest = s
      /\ Carrying("act", s).kind = "act" /\ Carrying("act", s).digest = s
  BY DEF Carrying
<1>5. CASE Begin(r, Carrying("logout", s), "revoke")
  BY <1>3, <1>4, <1>5, BeginKeeps
<1>6. CASE Begin(r, Carrying("act", s), "directory")
  BY <1>3, <1>4, <1>6, BeginKeeps
<1> QED  BY <1>1, <1>5, <1>6

LEMMA ReadDirectoryKeeps ==
    ASSUME IInv, NEW r \in Requests, ReadDirectory(r)
    PROVE  IInv'
<1>1. TypeOK /\ KindInv(r) /\ ReadInv(r)
  BY DEF IInv
<1>2. /\ pc[r] = "directory"
      /\ UNCHANGED <<now, sessions, cookies, actors, edits, cli, rotation>>
  BY DEF ReadDirectory
<1>3. CASE /\ req[r].kind = "act"
           /\ Goto(r, "resolve")
           /\ known' = [known EXCEPT ![r] = LoadDirectory]
           /\ UNCHANGED <<req, seen, arrived>>
  <2>1. /\ pc' \in [Requests -> Step] /\ pc'[r] = "resolve"
        /\ \A q \in Requests \ {r} : pc'[q] = pc[q]
    BY <1>1, <1>3, GotoKeeps DEF Step
  <2>2. LoadDirectory \in [actors : [Actors -> Entry], edits : Credential]
    BY <1>1 DEF LoadDirectory, TypeOK
  <2>3. known'[r].edits = edits
    BY <1>1, <1>3 DEF TypeOK, LoadDirectory
  <2>4. RequestTypes' /\ OthersWait(r)
    BY <1>1, <1>3, <2>1, <2>2 DEF RequestTypes, OthersWait, TypeOK
  <2>5. KindInv(r)'
    BY <1>1, <1>2, <1>3, <2>1 DEF KindInv
  <2>6. ReadInv(r)'
    BY <1>1, <1>2, <1>3, <2>1, <2>3 DEF ReadInv
  <2>7. ~LoggingIn(r)' /\ req'[r] = req[r]
    BY <1>3, <2>1 DEF LoggingIn
  <2> QED  BY <1>2, <2>4, <2>5, <2>6, <2>7, RequestStep
<1>4. CASE /\ req[r].kind = "login"
           /\ Authenticates(req[r], LoadDirectory.actors)
           /\ Goto(r, "issue")
           /\ UNCHANGED <<req, known, seen, arrived>>
  <2>1. /\ pc' \in [Requests -> Step] /\ pc'[r] = "issue"
        /\ \A q \in Requests \ {r} : pc'[q] = pc[q]
    BY <1>1, <1>4, GotoKeeps DEF Step
  <2>2. RequestTypes' /\ OthersWait(r)
    BY <1>1, <1>4, <2>1 DEF RequestTypes, OthersWait, TypeOK
  <2>3. KindInv(r)'
    BY <1>1, <1>2, <1>4, <2>1 DEF KindInv
  <2>4. ReadInv(r)'
    BY <1>1, <1>2, <1>4, <2>1 DEF ReadInv
  <2>5. req'[r] = req[r] /\ req'[r].actor \in Actors
        /\ req'[r].secret = actors[req'[r].actor].secret
    BY <1>1, <1>4 DEF KindInv, Authenticates, LoadDirectory
  <2> QED  BY <1>2, <2>2, <2>3, <2>4, <2>5, RequestStep
<1>5. CASE End(r)
  BY <1>2, <1>5, EndsOnly
<1> QED  BY <1>3, <1>4, <1>5 DEF ReadDirectory

LEMMA IssueKeeps ==
    ASSUME IInv, NEW r \in Requests, Issue(r)
    PROVE  IInv'
<1>1. TypeOK /\ KindInv(r) /\ ReadInv(r)
  BY DEF IInv
<1> DEFINE row == [actor |-> req[r].actor, expires |-> now + TtlSeconds * TicksPerSecond,
                   revoked |-> FALSE, secret |-> req[r].secret]
<1>2. /\ pc[r] = "issue" /\ Goto(r, "insert")
      /\ seen' = [seen EXCEPT ![r] = row]
      /\ UNCHANGED <<now, sessions, cookies, actors, edits, req, known, cli, arrived, rotation>>
  BY DEF Issue
<1>3. row \in Row
  <2>1. req[r].actor \in Actors /\ req[r].secret \in Credential
    BY <1>1, <1>2 DEF KindInv, TypeOK, Request
  <2>2. now + TtlSeconds * TicksPerSecond \in Nat
    BY <1>1, LifetimeType DEF TypeOK
  <2> QED  BY <2>1, <2>2 DEF Row
<1>4. row.actor = req[r].actor /\ row.secret = req[r].secret
  OBVIOUS
<1> HIDE DEF row
<1>5. /\ pc' \in [Requests -> Step] /\ pc'[r] = "insert"
      /\ \A q \in Requests \ {r} : pc'[q] = pc[q]
  BY <1>1, <1>2, GotoKeeps DEF Step
<1>6. RequestTypes' /\ OthersWait(r) /\ seen'[r] = row
  BY <1>1, <1>2, <1>3, <1>5 DEF RequestTypes, OthersWait, TypeOK
<1>7. KindInv(r)'
  BY <1>1, <1>2, <1>5 DEF KindInv
<1>8. req[r].kind = "login"
  BY <1>1, <1>2 DEF KindInv
<1>9. ReadInv(r)'
  BY <1>1, <1>2, <1>3, <1>4, <1>5, <1>6, <1>8 DEF ReadInv
<1>10. LoggingIn(r) /\ req'[r] = req[r]
  BY <1>2 DEF LoggingIn
<1> QED  BY <1>2, <1>6, <1>7, <1>9, <1>10, RequestStep

LEMMA ResolveKeeps ==
    ASSUME IInv, NEW r \in Requests, Resolve(r)
    PROVE  IInv'
<1>1. TypeOK /\ KindInv(r) /\ ReadInv(r)
  BY DEF IInv
<1>2. /\ pc[r] = "resolve" /\ Goto(r, "check")
      /\ seen' = [seen EXCEPT ![r] = sessions[req[r].digest]]
      /\ UNCHANGED <<now, sessions, cookies, actors, edits, req, known, cli, arrived, rotation>>
  BY DEF Resolve
<1>3. req[r].kind = "act" /\ req[r].digest \in cookies /\ req[r].digest \in Sessions
  BY <1>1, <1>2 DEF KindInv, TypeOK
<1>4. sessions[req[r].digest] \in Row \cup {NoRow}
  BY <1>1, <1>3 DEF TypeOK
<1>5. /\ pc' \in [Requests -> Step] /\ pc'[r] = "check"
      /\ \A q \in Requests \ {r} : pc'[q] = pc[q]
  BY <1>1, <1>2, GotoKeeps DEF Step
<1>6. RequestTypes' /\ OthersWait(r) /\ seen'[r] = sessions[req[r].digest]
  BY <1>1, <1>2, <1>4, <1>5 DEF RequestTypes, OthersWait, TypeOK
<1>7. KindInv(r)'
  BY <1>1, <1>2, <1>5 DEF KindInv
<1>8. ReadInv(r)'
  BY <1>1, <1>2, <1>3, <1>5, <1>6 DEF ReadInv
<1>9. ~LoggingIn(r)' /\ req'[r] = req[r]
  BY <1>2, <1>5 DEF LoggingIn
<1> QED  BY <1>2, <1>6, <1>7, <1>8, <1>9, RequestStep

LEMMA CheckKeeps ==
    ASSUME IInv, NEW r \in Requests, Check(r)
    PROVE  IInv'
<1>1. TypeOK /\ KindInv(r) /\ ReadInv(r)
  BY DEF IInv
<1>2. /\ pc[r] = "check"
      /\ UNCHANGED <<now, sessions, cookies, actors, edits, cli, rotation>>
  BY DEF Check
<1>3. CASE Admits(r) /\ Goto(r, "act") /\ UNCHANGED <<req, known, seen, arrived>>
  <2>1. /\ pc' \in [Requests -> Step] /\ pc'[r] = "act"
        /\ \A q \in Requests \ {r} : pc'[q] = pc[q]
    BY <1>1, <1>3, GotoKeeps DEF Step
  <2>2. RequestTypes' /\ OthersWait(r)
    BY <1>1, <1>3, <2>1 DEF RequestTypes, OthersWait, TypeOK
  <2>3. KindInv(r)'
    BY <1>1, <1>2, <1>3, <2>1 DEF KindInv
  <2>4. arrived[r].usable /\ known[r].actors[seen[r].actor].role # NoRole
    BY <1>1, <1>2, <1>3 DEF Admits, ReadInv
  <2>5. ReadInv(r)'
    BY <1>1, <1>2, <1>3, <2>1, <2>4 DEF ReadInv
  <2>6. ~LoggingIn(r)' /\ req'[r] = req[r]
    BY <1>3, <2>1 DEF LoggingIn
  <2> QED  BY <1>2, <2>2, <2>3, <2>5, <2>6, RequestStep
<1>4. CASE End(r)
  BY <1>2, <1>4, EndsOnly
<1> QED  BY <1>3, <1>4 DEF Check

-----------------------------------------------------------------------------
(* Steps that change the rows.                                             *)

(* Rows that decline, whoever did it; r is the request that did, if any.   *)
LEMMA DeclineStep ==
    ASSUME IInv, RequestTypes', DOMAIN sessions' = Sessions,
           sessions' = [s \in Sessions |-> sessions'[s]],
           \A s \in Sessions : Declines(s),
           \A q \in Requests :
              \/ pc'[q] = "idle" /\ req'[q] = Idle /\ KindInv(q)' /\ ReadInv(q)'
              \/ /\ pc'[q] = pc[q] /\ req'[q] = req[q] /\ known'[q] = known[q]
                 /\ seen'[q] = seen[q] /\ arrived'[q] = arrived[q],
           UNCHANGED <<now, cookies, actors, edits, rotation>>,
           cli' \in [op : {"none", "revoke", "prune"}, actor : Actors \cup {NoActor}, at : Int],
           cli' = cli \/ cli' = NoCommand
    PROVE  TypeOK' /\ (cli' = cli => CommandInv') /\ FileInv' /\ LoginsApart'
           /\ (\A q \in Requests : KindInv(q)' /\ ReadInv(q)') /\ RotationInv'
<1> USE DEF IInv
<1>1. TypeOK'
  <2>1. /\ sessions' \in [Sessions -> Row \cup {NoRow}]
        /\ \A s \in Sessions : sessions'[s] # NoRow => sessions[s] # NoRow
    BY DeclineTypes DEF TypeOK
  <2> QED  BY <2>1 DEF TypeOK, RequestTypes
<1>2. (cli' = cli => CommandInv') /\ FileInv'
  BY DEF CommandInv, FileInv
<1>3. \A q \in Requests : KindInv(q)' /\ ReadInv(q)'
  <2> SUFFICES ASSUME NEW q \in Requests,
                      pc'[q] = pc[q], req'[q] = req[q], known'[q] = known[q],
                      seen'[q] = seen[q], arrived'[q] = arrived[q]
               PROVE  KindInv(q)' /\ ReadInv(q)'
    OBVIOUS
  <2>1. /\ edits' \in Nat /\ edits <= edits' /\ now' \in Nat /\ now <= now'
        /\ cookies \subseteq cookies' /\ \A s \in cookies : Declines(s)
    BY DEF TypeOK, Credential
  <2>2. req[q].kind = "login" => req[q].digest \notin cookies'
    BY DEF KindInv
  <2> QED  BY <2>1, <2>2, Bystander
<1>4. LoginsApart'
  BY Values DEF LoginsApart
<1>5. RotationInv'
  <2>1. \A q \in Requests : LoggingIn(q)' => LoggingIn(q) /\ req'[q] = req[q]
    BY DEF LoggingIn
  <2>2. now' \in Nat /\ now <= now'
    BY DEF TypeOK
  <2> QED  BY <2>1, <2>2, RotationStays
<1> QED  BY <1>1, <1>2, <1>3, <1>4, <1>5

LEMMA RevokedTypes ==
    ASSUME sessions \in [Sessions -> Row \cup {NoRow}], NEW d, sessions' = Revoked(d)
    PROVE  /\ DOMAIN sessions' = Sessions
           /\ sessions' = [s \in Sessions |-> sessions'[s]]
           /\ \A s \in Sessions : Declines(s)
<1>1. DOMAIN sessions' = Sessions /\ sessions' = [s \in Sessions |-> sessions'[s]]
  BY DEF Revoked
<1>2. \A s \in Sessions : Declines(s)
  BY DEF Revoked, Declines
<1> QED  BY <1>1, <1>2

LEMMA LogoutKeeps ==
    ASSUME IInv, NEW r \in Requests, Logout(r)
    PROVE  IInv'
<1>1. TypeOK /\ End(r) /\ sessions' = Revoked(req[r].digest)
      /\ UNCHANGED <<now, cookies, actors, edits, cli, rotation>>
  BY DEF IInv, Logout
<1>2. /\ OthersWait(r) /\ RequestTypes'
      /\ pc'[r] = "idle" /\ req'[r] = Idle
      /\ KindInv(r)' /\ ReadInv(r)'
  BY <1>1, EndKeeps
<1>3. /\ DOMAIN sessions' = Sessions
      /\ sessions' = [s \in Sessions |-> sessions'[s]]
      /\ \A s \in Sessions : Declines(s)
  BY <1>1, RevokedTypes DEF TypeOK
<1>4. \A q \in Requests :
         \/ pc'[q] = "idle" /\ req'[q] = Idle /\ KindInv(q)' /\ ReadInv(q)'
         \/ /\ pc'[q] = pc[q] /\ req'[q] = req[q] /\ known'[q] = known[q]
            /\ seen'[q] = seen[q] /\ arrived'[q] = arrived[q]
  BY <1>2 DEF OthersWait
<1>5. cli' \in [op : {"none", "revoke", "prune"}, actor : Actors \cup {NoActor}, at : Int]
  BY <1>1 DEF TypeOK
<1> QED  BY <1>1, <1>2, <1>3, <1>4, <1>5, DeclineStep DEF IInv

LEMMA InsertKeeps ==
    ASSUME IInv, NEW r \in Requests, Insert(r)
    PROVE  IInv'
<1> USE DEF IInv
<1> DEFINE d == req[r].digest
<1>1. /\ TypeOK /\ End(r) /\ pc[r] = "insert"
      /\ sessions' = [sessions EXCEPT ![d] = seen[r]]
      /\ cookies' = cookies \cup {d}
      /\ UNCHANGED <<now, actors, edits, cli, rotation>>
  BY DEF Insert
<1>2. /\ OthersWait(r) /\ RequestTypes'
      /\ pc'[r] = "idle" /\ req'[r] = Idle
      /\ KindInv(r)' /\ ReadInv(r)'
  BY <1>1, EndKeeps
<1>3. /\ req[r].kind = "login" /\ d \in Sessions /\ d \notin cookies
      /\ seen[r] \in Row /\ seen[r].actor = req[r].actor /\ seen[r].secret = req[r].secret
  BY <1>1 DEF KindInv, ReadInv
<1>4. sessions'[d] = seen[r] /\ \A s \in Sessions \ {d} : sessions'[s] = sessions[s]
  BY <1>1, <1>3 DEF TypeOK
<1>5. TypeOK'
  <2>1. sessions' \in [Sessions -> Row \cup {NoRow}]
    BY <1>1, <1>3 DEF TypeOK
  <2>2. \A s \in Sessions : sessions'[s] # NoRow => s \in cookies'
    BY <1>1, <1>4 DEF TypeOK
  <2> HIDE DEF d
  <2> QED  BY <1>1, <1>2, <1>3, <2>1, <2>2 DEF TypeOK, RequestTypes
<1>6. CommandInv' /\ FileInv'
  BY <1>1 DEF CommandInv, FileInv
<1>7. ASSUME NEW q \in Requests
      PROVE  KindInv(q)' /\ ReadInv(q)'
  <2>1. CASE q # r
    <3>1. KindInv(q) /\ ReadInv(q)
      OBVIOUS
    <3>2. /\ edits' \in Nat /\ edits <= edits' /\ now' \in Nat /\ now <= now'
          /\ cookies \subseteq cookies' /\ \A s \in cookies : Declines(s)
      BY <1>1, <1>3, <1>4 DEF TypeOK, Credential, Declines
    <3>3. req[q].kind = "login" => req[q].digest \notin cookies'
      BY <1>1, <1>3, <2>1, <3>1 DEF KindInv, LoginsApart
    <3>4. pc'[q] = pc[q] /\ req'[q] = req[q] /\ known'[q] = known[q]
          /\ seen'[q] = seen[q] /\ arrived'[q] = arrived[q]
      BY <1>2, <2>1 DEF OthersWait
    <3> QED  BY <1>1, <3>1, <3>2, <3>3, <3>4, Bystander
  <2> QED  BY <1>2, <2>1
<1>8. LoginsApart'
  BY <1>2, Values DEF LoginsApart, OthersWait
<1>9. RotationInv'
  <2>1. \A q \in Requests : LoggingIn(q)' => LoggingIn(q) /\ req'[q] = req[q]
    BY <1>2 DEF LoggingIn, OthersWait
  <2>2. \A s \in Sessions :
           \/ Declines(s)
           \/ \E q \in Requests : /\ LoggingIn(q)
                                  /\ sessions'[s].actor = req[q].actor
                                  /\ sessions'[s].secret = req[q].secret
    BY <1>1, <1>3, <1>4 DEF Declines, LoggingIn
  <2>3. now' \in Nat /\ now <= now' /\ rotation' = rotation
        /\ \A a \in Actors : actors'[a].secret = actors[a].secret
    BY <1>1 DEF TypeOK
  <2> QED  BY <1>1, <2>1, <2>2, <2>3, RotationStays
<1> QED  BY <1>5, <1>6, <1>7, <1>8, <1>9

-----------------------------------------------------------------------------
(* Steps of the operator, and time.                                        *)

(* Requests look on.                                                       *)
LEMMA RequestsLookOn ==
    ASSUME IInv, UNCHANGED requests, cookies' = cookies,
           edits' \in Nat, edits <= edits', now' \in Nat, now <= now',
           \A s \in Sessions : Declines(s)
    PROVE  /\ RequestTypes' /\ LoginsApart'
           /\ \A q \in Requests : KindInv(q)' /\ ReadInv(q)'
           /\ \A q \in Requests : LoggingIn(q)' => LoggingIn(q) /\ req'[q] = req[q]
<1> USE DEF IInv, requests
<1>1. RequestTypes'
  BY DEF TypeOK, RequestTypes
<1>2. LoginsApart'
  BY DEF LoginsApart
<1>3. ASSUME NEW q \in Requests
      PROVE  KindInv(q)' /\ ReadInv(q)'
  <2>1. KindInv(q) /\ ReadInv(q)
    OBVIOUS
  <2>2. /\ pc'[q] = pc[q] /\ req'[q] = req[q] /\ known'[q] = known[q]
        /\ seen'[q] = seen[q] /\ arrived'[q] = arrived[q]
        /\ cookies \subseteq cookies'
    OBVIOUS
  <2>3. \A s \in cookies : Declines(s)
    BY DEF TypeOK
  <2>4. req[q].kind = "login" => req[q].digest \notin cookies'
    BY <2>1 DEF KindInv
  <2> QED  BY <2>1, <2>2, <2>3, <2>4, Bystander
<1>4. \A q \in Requests : LoggingIn(q)' => LoggingIn(q) /\ req'[q] = req[q]
  BY DEF LoggingIn
<1> QED  BY <1>1, <1>2, <1>3, <1>4

LEMMA TickKeeps ==
    ASSUME IInv, Tick
    PROVE  IInv'
<1>1. /\ now' = now + 1
      /\ UNCHANGED <<sessions, cookies, actors, edits, cli, rotation>>
      /\ UNCHANGED requests
  BY DEF Tick, requests
<1>2. now \in Nat /\ now' \in Nat /\ now <= now' /\ edits' \in Nat /\ edits <= edits'
  BY <1>1 DEF IInv, TypeOK, Credential
<1>3. \A s \in Sessions : Declines(s)
  BY <1>1 DEF Declines
<1>4. /\ RequestTypes' /\ LoginsApart'
      /\ \A q \in Requests : KindInv(q)' /\ ReadInv(q)'
      /\ \A q \in Requests : LoggingIn(q)' => LoggingIn(q) /\ req'[q] = req[q]
  BY <1>1, <1>2, <1>3, RequestsLookOn
<1>5. TypeOK'
  BY <1>1, <1>2, <1>4 DEF IInv, TypeOK, RequestTypes
<1>6. CommandInv' /\ FileInv'
  BY <1>1, <1>2 DEF IInv, CommandInv, FileInv, TypeOK
<1>7. RotationInv'
  BY <1>1, <1>2, <1>3, <1>4, RotationStays DEF IInv
<1> QED  BY <1>4, <1>5, <1>6, <1>7 DEF IInv

LEMMA RevokeDigestKeeps ==
    ASSUME IInv, RevokeDigest
    PROVE  IInv'
<1>1. PICK d \in Sessions : sessions' = Revoked(d)
  BY DEF RevokeDigest
<1>2. /\ UNCHANGED <<now, cookies, actors, edits, cli, rotation>>
      /\ UNCHANGED requests /\ TypeOK
  BY DEF RevokeDigest, requests, IInv
<1>3. /\ DOMAIN sessions' = Sessions
      /\ sessions' = [s \in Sessions |-> sessions'[s]]
      /\ \A s \in Sessions : Declines(s)
  BY <1>1, <1>2, RevokedTypes DEF TypeOK
<1>4. /\ RequestTypes'
      /\ cli' \in [op : {"none", "revoke", "prune"}, actor : Actors \cup {NoActor}, at : Int]
      /\ \A q \in Requests :
            /\ pc'[q] = pc[q] /\ req'[q] = req[q] /\ known'[q] = known[q]
            /\ seen'[q] = seen[q] /\ arrived'[q] = arrived[q]
  BY <1>2 DEF RequestTypes, TypeOK, requests
<1> QED  BY <1>2, <1>3, <1>4, DeclineStep DEF IInv

LEMMA PruneKeeps ==
    ASSUME IInv, Prune
    PROVE  IInv'
<1>1. /\ sessions' = [s \in Sessions |->
                         IF sessions[s] # NoRow /\ Prunable(sessions[s], cli.at)
                         THEN NoRow ELSE sessions[s]]
      /\ cli' = NoCommand
      /\ UNCHANGED <<now, cookies, actors, edits, rotation>>
      /\ UNCHANGED requests /\ TypeOK
  BY DEF Prune, requests, IInv
<1>2. /\ DOMAIN sessions' = Sessions
      /\ sessions' = [s \in Sessions |-> sessions'[s]]
      /\ \A s \in Sessions : Declines(s)
  BY <1>1 DEF Declines
<1>3. /\ RequestTypes'
      /\ cli' \in [op : {"none", "revoke", "prune"}, actor : Actors \cup {NoActor}, at : Int]
      /\ \A q \in Requests :
            /\ pc'[q] = pc[q] /\ req'[q] = req[q] /\ known'[q] = known[q]
            /\ seen'[q] = seen[q] /\ arrived'[q] = arrived[q]
  BY <1>1 DEF RequestTypes, TypeOK, requests, NoCommand
<1>4. CommandInv'
  BY <1>1 DEF CommandInv, NoCommand, TypeOK
<1>5. /\ UNCHANGED <<now, cookies, actors, edits, rotation>>
      /\ cli' = cli \/ cli' = NoCommand
  BY <1>1
<1> QED  BY <1>2, <1>3, <1>4, <1>5, DeclineStep DEF IInv

LEMMA RevokeActorKeeps ==
    ASSUME IInv, RevokeActor
    PROVE  IInv'
<1>1. /\ cli.op = "revoke"
      /\ sessions' = [s \in Sessions |->
                         IF /\ sessions[s].actor = cli.actor
                            /\ ~sessions[s].revoked
                            /\ Outlives(sessions[s], cli.at)
                         THEN [sessions[s] EXCEPT !.revoked = TRUE]
                         ELSE sessions[s]]
      /\ rotation' = [rotation EXCEPT ![cli.actor] =
                         IF @.stage = "restarted" THEN [stage |-> "done", at |-> cli.at] ELSE @]
      /\ cli' = NoCommand
      /\ UNCHANGED <<now, cookies, actors, edits>>
      /\ UNCHANGED requests
  BY DEF RevokeActor, requests
<1>2. cli.actor \in Actors /\ cli.at <= now /\ cli.at \in Int /\ now \in Nat /\ TypeOK
  BY <1>1 DEF IInv, CommandInv, TypeOK
<1>3. ASSUME NEW s \in Sessions
      PROVE  Declines(s)
  <2>1. sessions[s].actor = cli.actor => sessions[s] # NoRow
    BY <1>2, NoRowIsNone
  <2> QED  BY <1>1, <2>1 DEF Declines
<1>4. sessions' \in [Sessions -> Row \cup {NoRow}]
      /\ \A s \in Sessions : sessions'[s] # NoRow => sessions[s] # NoRow
  <2>1. DOMAIN sessions' = Sessions /\ sessions' = [s \in Sessions |-> sessions'[s]]
    BY <1>1
  <2> QED  BY <1>2, <1>3, <2>1, DeclineTypes DEF TypeOK
<1>5. /\ RequestTypes' /\ LoginsApart'
      /\ \A q \in Requests : KindInv(q)' /\ ReadInv(q)'
      /\ \A q \in Requests : LoggingIn(q)' => LoggingIn(q) /\ req'[q] = req[q]
  <2>1. edits' \in Nat /\ edits <= edits' /\ now' \in Nat /\ now <= now' /\ cookies' = cookies
    BY <1>1, <1>2 DEF TypeOK, Credential
  <2> QED  BY <1>1, <1>3, <2>1, RequestsLookOn
<1>6. /\ \A a \in Actors \ {cli.actor} : rotation'[a] = rotation[a]
      /\ \/ rotation'[cli.actor] = rotation[cli.actor]
         \/ /\ rotation[cli.actor].stage = "restarted"
            /\ rotation'[cli.actor] = [stage |-> "done", at |-> cli.at]
      /\ rotation' \in [Actors -> [stage : Stage, at : Int]]
  BY <1>1, <1>2 DEF TypeOK, Stage
<1>7. TypeOK'
  <2>1. cli' \in [op : {"none", "revoke", "prune"}, actor : Actors \cup {NoActor}, at : Int]
    BY <1>1 DEF NoCommand
  <2>2. \A s \in Sessions : sessions'[s] # NoRow => s \in cookies'
    BY <1>1, <1>2, <1>4 DEF TypeOK
  <2> QED  BY <1>1, <1>2, <1>4, <1>5, <1>6, <2>1, <2>2 DEF TypeOK, RequestTypes
<1>8. CommandInv' /\ FileInv'
  BY <1>1, <1>2 DEF CommandInv, FileInv, NoCommand, IInv
<1>9. RotationInv'
  <2> SUFFICES ASSUME NEW a \in Actors
               PROVE  /\ rotation'[a].stage \in {"restarted", "done"} =>
                            \A r \in Requests : LoggingIn(r)' /\ req'[r].actor = a =>
                                req'[r].secret = actors'[a].secret
                      /\ rotation'[a].stage = "done" =>
                            /\ rotation'[a].at <= now'
                            /\ \A s \in Sessions :
                                  /\ sessions'[s].actor = a
                                  /\ sessions'[s].secret < actors'[a].secret
                                  => \/ sessions'[s].revoked
                                     \/ ~TextLess(rotation'[a].at, sessions'[s].expires)
    BY DEF RotationInv
  <2>1. ASSUME rotation'[a].stage \in {"restarted", "done"}, NEW r \in Requests,
               LoggingIn(r)', req'[r].actor = a
        PROVE  req'[r].secret = actors'[a].secret
    <3>1. rotation[a].stage \in {"restarted", "done"}
      BY <1>6, <2>1
    <3> QED  BY <1>1, <1>5, <2>1, <3>1 DEF RotationInv, IInv
  <2>2. CASE rotation'[a] = rotation[a]
    <3>1. ASSUME rotation[a].stage = "done", NEW s \in Sessions,
                 sessions'[s].actor = a, sessions'[s].secret < actors[a].secret
          PROVE  sessions'[s].revoked \/ ~TextLess(rotation[a].at, sessions'[s].expires)
      <4>1. CASE sessions'[s] = sessions[s]
        BY <3>1, <4>1 DEF RotationInv, IInv
      <4>2. CASE sessions'[s] = NoRow
        BY <3>1, <4>2, NoRowIsNone
      <4>3. CASE sessions[s] # NoRow /\ sessions'[s] = [sessions[s] EXCEPT !.revoked = TRUE]
        BY <1>2, <4>3, RevokedRow DEF TypeOK
      <4> QED  BY <1>3, <4>1, <4>2, <4>3 DEF Declines
    <3>2. rotation[a].stage = "done" => rotation[a].at <= now
      BY DEF RotationInv, IInv
    <3> QED  BY <1>1, <2>1, <2>2, <3>1, <3>2
  <2>3. CASE a = cli.actor /\ rotation'[a] = [stage |-> "done", at |-> cli.at]
    <3>1. rotation'[a].at = cli.at /\ rotation'[a].stage = "done"
      BY <2>3
    <3>2. ASSUME NEW s \in Sessions, sessions'[s].actor = a
          PROVE  sessions'[s].revoked \/ ~TextLess(cli.at, sessions'[s].expires)
      <4>1. CASE /\ sessions[s].actor = cli.actor
                 /\ ~sessions[s].revoked
                 /\ Outlives(sessions[s], cli.at)
        <5>1. sessions'[s] = [sessions[s] EXCEPT !.revoked = TRUE] /\ sessions[s] \in Row
          BY <1>1, <1>2, <4>1, NoRowIsNone DEF TypeOK
        <5> QED  BY <5>1, RevokedRow
      <4>2. CASE ~(/\ sessions[s].actor = cli.actor
                   /\ ~sessions[s].revoked
                   /\ Outlives(sessions[s], cli.at))
        <5>1. sessions'[s] = sessions[s]
          BY <1>1, <4>2
        <5> QED  BY <2>3, <3>2, <4>2, <5>1 DEF Outlives
      <4> QED  BY <4>1, <4>2
    <3> QED  BY <1>1, <1>2, <2>1, <3>1, <3>2
  <2> QED  BY <1>6, <2>2, <2>3
<1> QED  BY <1>5, <1>7, <1>8, <1>9 DEF IInv

LEMMA StartCommandKeeps ==
    ASSUME IInv, StartCommand
    PROVE  IInv'
<1>1. /\ UNCHANGED <<now, sessions, cookies, actors, edits, rotation>>
      /\ UNCHANGED requests
  BY DEF StartCommand, requests
<1>2. now' \in Nat /\ now <= now' /\ edits' \in Nat /\ edits <= edits' /\ now \in Nat
  BY <1>1 DEF IInv, TypeOK, Credential
<1>3. \A s \in Sessions : Declines(s)
  BY <1>1 DEF Declines
<1>4. /\ RequestTypes' /\ LoginsApart'
      /\ \A q \in Requests : KindInv(q)' /\ ReadInv(q)'
      /\ \A q \in Requests : LoggingIn(q)' => LoggingIn(q) /\ req'[q] = req[q]
  BY <1>1, <1>2, <1>3, RequestsLookOn
<1>5. /\ cli' \in [op : {"none", "revoke", "prune"}, actor : Actors \cup {NoActor}, at : Int]
      /\ CommandInv'
  <2>1. CASE \E a \in Actors : cli' = [op |-> "revoke", actor |-> a, at |-> now]
    BY <1>1, <1>2, <2>1 DEF CommandInv
  <2>2. CASE \E d \in RetentionSeconds :
               cli' = [op |-> "prune", actor |-> NoActor, at |-> Cutoff(d)]
    <3>1. PICK d \in RetentionSeconds :
             cli' = [op |-> "prune", actor |-> NoActor, at |-> Cutoff(d)]
      BY <2>2
    <3>2. Cutoff(d) \in Int /\ Cutoff(d) <= now
      BY <1>2, CutoffPast
    <3> QED  BY <1>1, <3>1, <3>2 DEF CommandInv
  <2> QED  BY <2>1, <2>2 DEF StartCommand
<1>6. TypeOK'
  BY <1>1, <1>4, <1>5 DEF IInv, TypeOK, RequestTypes
<1>7. FileInv'
  BY <1>1 DEF IInv, FileInv
<1>8. RotationInv'
  BY <1>1, <1>2, <1>3, <1>4, RotationStays DEF IInv
<1> QED  BY <1>4, <1>5, <1>6, <1>7, <1>8 DEF IInv

LEMMA EditKeeps ==
    ASSUME IInv, Edit
    PROVE  IInv'
<1>1. /\ edits < MaxEdits /\ edits' = edits + 1
      /\ UNCHANGED <<now, sessions, cookies, cli>> /\ UNCHANGED requests
  BY DEF Edit, requests
<1>2. now' \in Nat /\ now <= now' /\ edits' \in Nat /\ edits <= edits'
      /\ edits' \in Credential /\ edits \in Nat /\ MaxEdits \in Nat
  BY <1>1, TimeAssumption DEF IInv, TypeOK, Credential
<1>3. \A s \in Sessions : Declines(s)
  BY <1>1 DEF Declines
<1>4. /\ RequestTypes' /\ LoginsApart'
      /\ \A q \in Requests : KindInv(q)' /\ ReadInv(q)'
      /\ \A q \in Requests : LoggingIn(q)' => LoggingIn(q) /\ req'[q] = req[q]
  BY <1>1, <1>2, <1>3, RequestsLookOn
<1>5. CommandInv'
  BY <1>1 DEF IInv, CommandInv
<1>6. \A a \in Actors : /\ actors[a].role \in Roles \cup {NoRole}
                        /\ actors[a].secret \in Nat /\ actors[a].secret <= edits
  BY DEF IInv, TypeOK, Entry, Credential, FileInv
<1>7. PICK a \in Actors :
         \/ /\ \E x \in Roles \cup {NoRole} :
                  actors' = [actors EXCEPT ![a] = [role |-> x, secret |-> actors[a].secret]]
            /\ UNCHANGED rotation
         \/ /\ actors' = [actors EXCEPT ![a] = [role |-> actors[a].role,
                                                secret |-> actors[a].secret + 1]]
            /\ rotation' = [rotation EXCEPT ![a] = [stage |-> "edited", at |-> 0]]
  BY DEF Edit
<1>8. CASE /\ \E x \in Roles \cup {NoRole} :
                 actors' = [actors EXCEPT ![a] = [role |-> x, secret |-> actors[a].secret]]
           /\ UNCHANGED rotation
  <2>1. PICK x \in Roles \cup {NoRole} :
           actors' = [actors EXCEPT ![a] = [role |-> x, secret |-> actors[a].secret]]
    BY <1>8
  <2>2. [role |-> x, secret |-> actors[a].secret] \in Entry
    BY <1>1, <1>2, <1>6 DEF Entry, Credential
  <2>3. actors' \in [Actors -> Entry]
        /\ \A b \in Actors : actors'[b].secret = actors[b].secret
    BY <2>1, <2>2 DEF IInv, TypeOK
  <2>4. TypeOK'
    BY <1>1, <1>2, <1>4, <1>8, <2>3 DEF IInv, TypeOK, RequestTypes
  <2>5. FileInv'
    BY <1>1, <1>2, <1>6, <2>3 DEF FileInv
  <2>6. RotationInv'
    BY <1>2, <1>3, <1>4, <1>8, <2>3, RotationStays DEF IInv
  <2> QED  BY <1>4, <1>5, <2>4, <2>5, <2>6 DEF IInv
<1>9. CASE /\ actors' = [actors EXCEPT ![a] = [role |-> actors[a].role,
                                               secret |-> actors[a].secret + 1]]
           /\ rotation' = [rotation EXCEPT ![a] = [stage |-> "edited", at |-> 0]]
  <2>1. [role |-> actors[a].role, secret |-> actors[a].secret + 1] \in Entry
    BY <1>1, <1>2, <1>6 DEF Entry, Credential
  <2>2. /\ actors' \in [Actors -> Entry]
        /\ actors'[a].secret = actors[a].secret + 1
        /\ \A b \in Actors \ {a} : actors'[b] = actors[b]
    BY <1>9, <2>1 DEF IInv, TypeOK
  <2>3. /\ rotation' \in [Actors -> [stage : Stage, at : Int]]
        /\ rotation'[a].stage = "edited"
        /\ \A b \in Actors \ {a} : rotation'[b] = rotation[b]
    BY <1>9 DEF IInv, TypeOK, Stage
  <2>4. TypeOK'
    BY <1>1, <1>2, <1>4, <2>2, <2>3 DEF IInv, TypeOK, RequestTypes
  <2>5. FileInv'
    BY <1>1, <1>2, <1>6, <2>2 DEF FileInv
  <2>6. RotationInv'
    <3> SUFFICES ASSUME NEW b \in Actors \ {a}
                 PROVE  /\ rotation[b].stage \in {"restarted", "done"} =>
                              \A r \in Requests : LoggingIn(r)' /\ req'[r].actor = b =>
                                  req'[r].secret = actors[b].secret
                        /\ rotation[b].stage = "done" =>
                              /\ rotation[b].at <= now
                              /\ \A s \in Sessions :
                                    /\ sessions[s].actor = b
                                    /\ sessions[s].secret < actors[b].secret
                                    => \/ sessions[s].revoked
                                       \/ ~TextLess(rotation[b].at, sessions[s].expires)
      BY <1>1, <2>2, <2>3 DEF RotationInv
    <3> QED  BY <1>4 DEF IInv, RotationInv
  <2> QED  BY <1>4, <1>5, <2>4, <2>5, <2>6 DEF IInv
<1> QED  BY <1>7, <1>8, <1>9

LEMMA RestartKeeps ==
    ASSUME IInv, Restart
    PROVE  IInv'
<1>1. /\ pc' = [r \in Requests |-> "idle"]
      /\ req' = [r \in Requests |-> Idle]
      /\ known' = [r \in Requests |-> NoFile]
      /\ seen' = [r \in Requests |-> NoRow]
      /\ arrived' = [r \in Requests |-> [usable |-> FALSE, edits |-> 0]]
      /\ cli' = NoCommand
      /\ rotation' = [a \in Actors |-> IF rotation[a].stage = "edited"
                                       THEN [stage |-> "restarted", at |-> 0]
                                       ELSE rotation[a]]
      /\ UNCHANGED <<now, sessions, cookies, actors, edits>>
  BY DEF Restart
<1>2. RequestTypes'
  BY <1>1, Values DEF RequestTypes, Step
<1>3. cli' \in [op : {"none", "revoke", "prune"}, actor : Actors \cup {NoActor}, at : Int]
      /\ rotation' \in [Actors -> [stage : Stage, at : Int]]
  BY <1>1 DEF NoCommand, IInv, TypeOK, Stage
<1>4. TypeOK'
  BY <1>1, <1>2, <1>3 DEF IInv, TypeOK, RequestTypes
<1>5. CommandInv' /\ FileInv'
  BY <1>1 DEF IInv, CommandInv, FileInv, NoCommand, TypeOK
<1>6. LoginsApart' /\ \A q \in Requests : KindInv(q)'
  BY <1>1, Values DEF LoginsApart, KindInv
<1>7. \A q \in Requests : ReadInv(q)'
  BY <1>1 DEF ReadInv, IInv, TypeOK, Credential
<1>8. \A q \in Requests : ~LoggingIn(q)'
  BY <1>1 DEF LoggingIn
<1>9. RotationInv'
  <2>1. \A a \in Actors : rotation'[a].stage = "done" => rotation'[a] = rotation[a]
    BY <1>1
  <2> QED  BY <1>1, <1>8, <2>1 DEF IInv, RotationInv
<1> QED  BY <1>4, <1>5, <1>6, <1>7, <1>9 DEF IInv

-----------------------------------------------------------------------------
(* The invariant holds.                                                    *)

LEMMA InitInv == Init => IInv
<1> SUFFICES ASSUME Init PROVE IInv
  OBVIOUS
<1>1. TypeOK
  <2>1. actors \in [Actors -> Entry]
    BY Values DEF Init, Entry
  <2> QED  BY <2>1, Values DEF Init, TypeOK, Step, NoCommand, NoRotation, Stage
<1>2. CommandInv /\ FileInv /\ LoginsApart
  BY Values DEF Init, CommandInv, FileInv, LoginsApart, NoCommand
<1>3. \A r \in Requests : KindInv(r) /\ ReadInv(r)
  BY Values DEF Init, KindInv, ReadInv
<1>4. RotationInv
  BY DEF Init, RotationInv, NoRotation
<1> QED  BY <1>1, <1>2, <1>3, <1>4 DEF IInv

LEMMA InvStep == IInv /\ [Next]_vars => IInv'
<1> SUFFICES ASSUME IInv, [Next]_vars PROVE IInv'
  OBVIOUS
<1>1. ASSUME NEW r \in Requests, Login(r) PROVE IInv'
  BY <1>1, LoginKeeps
<1>2. ASSUME NEW r \in Requests, Send(r) PROVE IInv'
  BY <1>2, SendKeeps
<1>3. ASSUME NEW r \in Requests, Advance(r) PROVE IInv'
  <2>1. CASE Act(r)
    BY <2>1, EndsOnly DEF Act
  <2> QED  BY <1>3, <2>1, ReadDirectoryKeeps, IssueKeeps, InsertKeeps, LogoutKeeps,
              ResolveKeeps, CheckKeeps DEF Advance
<1>4. ASSUME NEW r \in Requests, Unavailable(r) PROVE IInv'
  BY <1>4, EndsOnly DEF Unavailable
<1>5. CASE Edit
  BY <1>5, EditKeeps
<1>6. CASE Restart
  BY <1>6, RestartKeeps
<1>7. CASE StartCommand
  BY <1>7, StartCommandKeeps
<1>8. CASE RevokeActor
  BY <1>8, RevokeActorKeeps
<1>9. CASE Prune
  BY <1>9, PruneKeeps
<1>10. CASE RevokeDigest
  BY <1>10, RevokeDigestKeeps
<1>11. CASE Tick
  BY <1>11, TickKeeps
<1>12. CASE UNCHANGED vars
  <2>1. /\ UNCHANGED <<now, sessions, cookies, actors, edits, cli, rotation>>
        /\ UNCHANGED requests
    BY <1>12 DEF vars, requests
  <2>2. \A s \in Sessions : Declines(s)
    BY <2>1 DEF Declines
  <2>3. now' \in Nat /\ now <= now' /\ edits' \in Nat /\ edits <= edits'
    BY <2>1 DEF IInv, TypeOK, Credential
  <2>4. /\ RequestTypes' /\ LoginsApart'
        /\ \A q \in Requests : KindInv(q)' /\ ReadInv(q)'
        /\ \A q \in Requests : LoggingIn(q)' => LoggingIn(q) /\ req'[q] = req[q]
    BY <2>1, <2>2, <2>3, RequestsLookOn
  <2>5. TypeOK' /\ CommandInv' /\ FileInv'
    BY <2>1, <2>4 DEF IInv, TypeOK, RequestTypes, CommandInv, FileInv
  <2>6. RotationInv'
    BY <2>1, <2>2, <2>3, <2>4, RotationStays DEF IInv
  <2> QED  BY <2>4, <2>5, <2>6 DEF IInv
<1> QED  BY <1>1, <1>2, <1>3, <1>4, <1>5, <1>6, <1>7, <1>8, <1>9, <1>10, <1>11, <1>12
            DEF Next

LEMMA Invariance == Spec => []IInv
BY InitInv, InvStep, PTL DEF Spec

-----------------------------------------------------------------------------
(* Every variable keeps to its type.                                       *)
THEOREM TypeCorrect == Spec => []TypeOK
<1>1. IInv => TypeOK
  BY DEF IInv
<1> QED  BY <1>1, Invariance, PTL

(* Whoever acts was entitled to when the request arrived: a logout, a      *)
(* revocation or an edit that was acknowledged before it holds for it.     *)
THEOREM AuthorityIsFresh == Spec => []FreshAuthority
<1>1. IInv => FreshAuthority
  BY DEF IInv, ReadInv, FreshAuthority
<1> QED  BY <1>1, Invariance, PTL

(* The runbook's rotation locks the old secret out.                        *)
THEOREM RotationsLockOut == Spec => []RotationLocksOut
<1>1. IInv => RotationLocksOut
  <2> SUFFICES ASSUME IInv, NEW a \in Actors, NEW s \in Sessions,
                      rotation[a].stage = "done", sessions[s].actor = a,
                      sessions[s].secret < actors[a].secret,
                      IsActive(sessions[s], now)
               PROVE  Second(sessions[s].expires) = Second(rotation[a].at)
    BY DEF RotationLocksOut
  <2>1. sessions[s] \in Row /\ ~sessions[s].revoked /\ now < sessions[s].expires
    BY DEF IInv, TypeOK, IsActive
  <2>2. rotation[a].at <= now /\ ~TextLess(rotation[a].at, sessions[s].expires)
    BY <2>1 DEF IInv, RotationInv
  <2>3. rotation[a].at \in Int /\ sessions[s].expires \in Int /\ now \in Nat
    BY <2>1 DEF IInv, TypeOK, Row
  <2>4. rotation[a].at <= sessions[s].expires
    BY <2>1, <2>2, <2>3
  <2> QED  BY <2>2, <2>3, <2>4, TextOrder
<1> QED  BY <1>1, Invariance, PTL

(* Nothing but a prune deletes rows, and it deletes none that has seconds  *)
(* to live.                                                                *)
LEMMA PruneStep ==
    ASSUME IInv, [Next]_vars, NEW s \in Sessions, sessions[s] # NoRow, sessions'[s] = NoRow
    PROVE  Second(sessions[s].expires) <= Second(now)
<1>1. sessions[s] \in Row /\ now \in Nat /\ cli.at \in Int /\ cli.at <= now
  BY DEF IInv, TypeOK, CommandInv
<1>2. [sessions[s] EXCEPT !.revoked = TRUE] # NoRow
  BY <1>1, RevokedRow, NoRowIsNone
<1>3. CASE Prune
  <2>1. TextLess(sessions[s].expires, cli.at)
    BY <1>3 DEF Prune, Prunable
  <2>2. sessions[s].expires \in Int
    BY <1>1 DEF Row
  <2>3. Second(sessions[s].expires) <= Second(cli.at)
    BY <1>1, <2>1, <2>2, TextOrder
  <2>4. /\ Second(cli.at) <= Second(now)
        /\ Second(cli.at) \in Int /\ Second(now) \in Int /\ Second(sessions[s].expires) \in Int
    BY <1>1, <2>2, SecondMonotone
  <2> QED  BY <2>3, <2>4
<1>4. ASSUME NEW r \in Requests, Insert(r) PROVE FALSE
  <2>1. seen[r] \in Row
    BY <1>4 DEF IInv, ReadInv, Insert
  <2>2. sessions' = [sessions EXCEPT ![req[r].digest] = seen[r]]
    BY <1>4 DEF Insert
  <2> QED  BY <2>1, <2>2, NoRowIsNone DEF IInv, TypeOK
<1>5. ASSUME NEW d, sessions' = Revoked(d) PROVE FALSE
  BY <1>2, <1>5 DEF Revoked, IInv, TypeOK
<1>6. ~RevokeActor
  BY <1>2 DEF RevokeActor
<1>7. CASE sessions' = sessions
  BY <1>7
<1>8. \/ Prune \/ RevokeActor \/ sessions' = sessions
      \/ \E d : sessions' = Revoked(d)
      \/ \E r \in Requests : Insert(r)
  <2>1. ASSUME NEW r \in Requests, Advance(r)
        PROVE  Insert(r) \/ sessions' = sessions \/ \E d : sessions' = Revoked(d)
    BY <2>1 DEF Advance, ReadDirectory, Issue, Logout, Resolve, Check, Act
  <2>2. ASSUME NEW r \in Requests, Login(r) \/ Send(r) \/ Unavailable(r)
        PROVE  sessions' = sessions
    BY <2>2 DEF Login, Send, Begin, Unavailable
  <2>3. ASSUME Edit \/ Restart \/ StartCommand \/ Tick \/ UNCHANGED vars
        PROVE  sessions' = sessions
    BY <2>3 DEF Edit, Restart, StartCommand, Tick, vars
  <2>4. RevokeDigest => \E d : sessions' = Revoked(d)
    BY DEF RevokeDigest
  <2> QED  BY <2>1, <2>2, <2>3, <2>4 DEF Next
<1> QED  BY <1>3, <1>4, <1>5, <1>6, <1>7, <1>8

(* Pruning takes only what is over, but for the last second.               *)
THEOREM PruningTakesTheOver == Spec => PrunedAreOver
<1>1. IInv /\ [Next]_vars =>
        [\A s \in Sessions :
            sessions[s] # NoRow /\ sessions'[s] = NoRow =>
                Second(sessions[s].expires) <= Second(now)]_vars
  BY PruneStep
<1> QED  BY <1>1, Invariance, PTL DEF Spec, PrunedAreOver
=============================================================================
