------------------------------ MODULE Sessions ------------------------------
(***************************************************************************)
(* Sign-in, sessions and the provider token of one user (auth.service.ts,  *)
(* jwt.strategy.ts, and what mail.service.ts does to the token).  A sign-  *)
(* in writes the user's one token and then a session row of its own; the   *)
(* row's key is the signed JWT, which two sign-ins of one second share.    *)
(* Requests are admitted by their session row; they read the token, use    *)
(* it, and clear it when it has expired or is refused.  The clearing names *)
(* no token: it clears whatever is there by then.  0 stands for no token   *)
(* and no session.                                                         *)
(***************************************************************************)
EXTENDS Naturals

CONSTANTS Requests,        \* requests in flight at once
          Lifetimes,       \* what the provider says of a token's lifetime
          MinLifetime, DefaultLifetime,
          ChallengeTime,   \* how long a two-factor challenge is good for
          MaxLogins, MaxTime   \* bounds

ASSUME ConstantsAssumption ==
    /\ Lifetimes \subseteq Nat /\ MinLifetime \in Nat \ {0} /\ DefaultLifetime \in Nat
    /\ DefaultLifetime >= MinLifetime
    /\ ChallengeTime \in Nat /\ MaxLogins \in Nat /\ MaxTime \in Nat \ {0}

Logins == 1 .. MaxLogins
Times  == 1 .. MaxTime

VARIABLES
    clock,
    phase,      \* of each sign-in
    deadline,   \* of its two-factor challenge
    expiry,     \* tokenExpiry it computed: also of its session
    lifetime,   \* the provider's word
    jwt,        \* the second it signed its JWT in
    token,      \* User.authToken: the sign-in it comes from
    session,    \* of each JWT, the sign-in whose row has it
    revoked,    \* tokens the provider refuses
    pc, with,   \* of each request: its JWT,
    seen,       \* and the token it read
    \* history, for the properties only
    saves, savedAs, savedAt,  \* order and time of the writes of the token
    owner,      \* the sign-in of the session a request was admitted by
    lost,       \* why the token of a sign-in was cleared
    ended,      \* JWTs whose session was revoked, signed out or pruned
    out         \* signing out, or signed out, and nobody signing in meanwhile

signins  == <<phase, deadline, expiry, lifetime, jwt>>
columns  == <<token, session, revoked>>
requests == <<pc, with, seen>>
hist     == <<saves, savedAs, savedAt, owner, lost, ended, out>>
vars     == <<clock, signins, columns, requests, hist>>

TypeOK ==
    /\ clock \in Times
    /\ phase \in [Logins -> {"none", "challenge", "granted", "saved", "done", "failed"}]
    /\ deadline \in [Logins -> Nat] /\ expiry \in [Logins -> Nat] /\ lifetime \in [Logins -> Nat]
    /\ jwt \in [Logins -> Times \cup {0}]
    /\ token \in Logins \cup {0} /\ session \in [Times -> Logins \cup {0}]
    /\ revoked \subseteq Logins
    /\ pc \in [Requests -> {"idle", "admitted", "call", "clear", "leave"}]
    /\ with \in [Requests -> Times \cup {0}] /\ seen \in [Requests -> Logins \cup {0}]
    /\ saves \in Nat /\ savedAs \in [Logins -> Nat] /\ savedAt \in [Logins -> Nat]
    /\ owner \in [Requests -> Logins \cup {0}]
    /\ lost \in [Logins -> {"", "cause", "robbed", "left"}]
    /\ ended \subseteq Times /\ out \in {"in", "leaving", "out"}

Init ==
    /\ clock = 1
    /\ phase = [n \in Logins |-> "none"]
    /\ deadline = [n \in Logins |-> 0] /\ expiry = deadline /\ lifetime = deadline /\ jwt = deadline
    /\ token = 0 /\ session = [t \in Times |-> 0] /\ revoked = {}
    /\ pc = [r \in Requests |-> "idle"]
    /\ with = [r \in Requests |-> 0] /\ seen = with /\ owner = with
    /\ saves = 0 /\ savedAs = deadline /\ savedAt = deadline
    /\ lost = [n \in Logins |-> ""] /\ ended = {} /\ out = "in"

Live(t) == session[t] # 0 /\ expiry[session[t]] > clock

-----------------------------------------------------------------------------
(* login, loginTwoFactor, createSession                                    *)

\* The provider grants the sign-in, or asks for a second factor.
Authenticate(n, l) ==
    /\ phase[n] = "none" /\ \A k \in 1 .. (n - 1) : phase[k] # "none"
    /\ \/ phase' = [phase EXCEPT ![n] = "granted"] /\ UNCHANGED deadline
       \/ phase' = [phase EXCEPT ![n] = "challenge"]
          /\ deadline' = [deadline EXCEPT ![n] = clock + ChallengeTime]
    /\ lifetime' = [lifetime EXCEPT ![n] = l]
    /\ out' = "in"
    /\ UNCHANGED <<clock, expiry, jwt, columns, requests, saves, savedAs, savedAt, owner, lost, ended>>

VerifyTwoFactor(n) ==
    /\ phase[n] = "challenge"
    /\ phase' = [phase EXCEPT ![n] = IF clock < deadline[n] THEN "granted" ELSE "failed"]
    /\ deadline' = [deadline EXCEPT ![n] = 0]
    /\ UNCHANGED <<clock, expiry, lifetime, jwt, columns, requests, hist>>

EffectiveLifetime(l) == IF l >= MinLifetime THEN l ELSE DefaultLifetime

\* Mutant: the update of a user who has a token leaves it.
SavedTokenKept(n) == IF token = 0 THEN n ELSE token

SavedToken(n) == n

\* The upsert of the user.
SaveToken(n) ==
    /\ phase[n] = "granted"
    /\ phase' = [phase EXCEPT ![n] = "saved"]
    /\ token' = SavedToken(n)
    /\ expiry' = [expiry EXCEPT ![n] = clock + EffectiveLifetime(lifetime[n])]
    /\ saves' = saves + 1
    /\ savedAs' = [savedAs EXCEPT ![n] = saves + 1]
    /\ savedAt' = [savedAt EXCEPT ![n] = clock]
    /\ UNCHANGED <<clock, deadline, lifetime, jwt, session, revoked, requests, owner, lost, ended, out>>

\* The session row.  A row with the same JWT is as good (P2002).
CreateSession(n) ==
    /\ phase[n] = "saved"
    /\ phase' = [phase EXCEPT ![n] = "done"]
    /\ jwt' = [jwt EXCEPT ![n] = clock]
    /\ session' = [session EXCEPT ![clock] = IF @ = 0 THEN n ELSE @]
    /\ ended' = ended \ {clock} /\ out' = "in"
    /\ UNCHANGED <<clock, deadline, expiry, lifetime, token, revoked, requests,
                   saves, savedAs, savedAt, owner, lost>>

\* The database refuses it, or the process dies: nobody gets the JWT.
SessionFails(n) ==
    /\ phase[n] = "saved"
    /\ phase' = [phase EXCEPT ![n] = "failed"]
    /\ UNCHANGED <<clock, deadline, expiry, lifetime, jwt, columns, requests, hist>>

-----------------------------------------------------------------------------
(* Requests.                                                               *)

Idle(r) ==
    /\ pc' = [pc EXCEPT ![r] = "idle"]
    /\ with' = [with EXCEPT ![r] = 0] /\ seen' = [seen EXCEPT ![r] = 0]
    /\ owner' = [owner EXCEPT ![r] = 0]

Issued == {jwt[n] : n \in {k \in Logins : phase[k] = "done"}}

\* Mutant: a signature that is good for another while is enough.
AdmitsSigned(t) == \E n \in Logins : jwt[n] = t /\ expiry[n] > clock

\* JwtStrategy.validate
Admits(t) == Live(t)

Admit(r, t) ==
    /\ pc[r] = "idle" /\ t \in Issued /\ Admits(t)
    /\ pc' = [pc EXCEPT ![r] = "admitted"]
    /\ with' = [with EXCEPT ![r] = t]
    /\ owner' = [owner EXCEPT ![r] = session[t]]
    /\ UNCHANGED <<clock, signins, columns, seen, saves, savedAs, savedAt, lost, ended, out>>

\* getUser of mail.service: no token, a token that has expired, or one to use.
ReadUser(r) ==
    /\ pc[r] = "admitted"
    /\ IF token = 0 THEN Idle(r)
       ELSE /\ pc' = [pc EXCEPT ![r] = IF expiry[token] <= clock THEN "clear" ELSE "call"]
            /\ seen' = [seen EXCEPT ![r] = token]
            /\ UNCHANGED <<with, owner>>
    /\ UNCHANGED <<clock, signins, columns, saves, savedAs, savedAt, lost, ended, out>>

Refused(n) == n \in revoked \/ expiry[n] <= clock

\* The provider refuses the token; getFolders and sendMessage then clear it.
CallRefused(r) ==
    /\ pc[r] = "call" /\ Refused(seen[r])
    /\ pc' = [pc EXCEPT ![r] = "clear"]
    /\ UNCHANGED <<clock, signins, columns, with, seen, hist>>

\* It answers, fails otherwise, or refuses in a handler that does not clear.
CallEnds(r) ==
    /\ pc[r] = "call"
    /\ Idle(r)
    /\ UNCHANGED <<clock, signins, columns, saves, savedAs, savedAt, lost, ended, out>>

Lost(why) == IF token = 0 THEN lost ELSE [lost EXCEPT ![token] = why]

\* The update clears the columns whatever token they hold by now.
ClearToken(r) ==
    /\ pc[r] = "clear"
    /\ token' = 0
    /\ lost' = Lost(IF token = seen[r] THEN "cause" ELSE "robbed")
    /\ Idle(r)
    /\ UNCHANGED <<clock, signins, session, revoked, saves, savedAs, savedAt, ended, out>>

Rows == {t \in Times : session[t] # 0}
Delete(ts) ==
    /\ session' = [t \in Times |-> IF t \in ts THEN 0 ELSE session[t]]
    /\ ended' = ended \cup (ts \cap Rows)

Leaves(r) == Rows

HalfWay == {n \in Logins : phase[n] \in {"challenge", "granted", "saved"}}

\* logout: all the sessions, then the token.
Logout(r) ==
    /\ pc[r] = "admitted"
    /\ Delete(Leaves(r))
    /\ pc' = [pc EXCEPT ![r] = "leave"]
    /\ out' = IF HalfWay = {} THEN "leaving" ELSE "in"
    /\ UNCHANGED <<clock, signins, token, revoked, with, seen, saves, savedAs, savedAt, owner, lost>>

LogoutClears(r) ==
    /\ pc[r] = "leave"
    /\ token' = 0 /\ lost' = Lost("left")
    /\ out' = IF out = "leaving" THEN "out" ELSE out
    /\ Idle(r)
    /\ UNCHANGED <<clock, signins, session, revoked, saves, savedAs, savedAt, ended>>

\* revokeSession and revokeOtherSessions
Revoke(r, ts) ==
    /\ pc[r] = "admitted"
    /\ Delete(ts) /\ Idle(r)
    /\ UNCHANGED <<clock, signins, token, revoked, saves, savedAs, savedAt, lost, out>>

\* pruneExpiredSessions, every hour.
Prune ==
    /\ \E t \in Rows : ~Live(t)
    /\ Delete({t \in Rows : ~Live(t)})
    /\ UNCHANGED <<clock, signins, token, revoked, requests, saves, savedAs, savedAt, owner, lost, out>>

Tick ==
    /\ clock < MaxTime /\ clock' = clock + 1
    /\ UNCHANGED <<signins, columns, requests, hist>>

\* Bound: one token.
ProviderRevokes(n) ==
    /\ phase[n] \in {"saved", "done"} /\ revoked = {} /\ revoked' = {n}
    /\ UNCHANGED <<clock, signins, token, session, requests, hist>>

-----------------------------------------------------------------------------
SignIn(n) ==
    \/ \E l \in Lifetimes : Authenticate(n, l)
    \/ VerifyTwoFactor(n) \/ SaveToken(n) \/ CreateSession(n) \/ SessionFails(n) \/ ProviderRevokes(n)

Request(r) ==
    \/ \E t \in Times : Admit(r, t)
    \/ ReadUser(r) \/ CallRefused(r) \/ CallEnds(r) \/ ClearToken(r) \/ Logout(r) \/ LogoutClears(r)
    \/ \E t \in Rows : Revoke(r, {t})
    \/ Revoke(r, Rows \ {with[r]})

Next ==
    \/ \E n \in Logins : SignIn(n)
    \/ \E r \in Requests : Request(r)
    \/ Prune \/ Tick

Spec == Init /\ [][Next]_vars

-----------------------------------------------------------------------------
\* Whatever names a sign-in names one that has saved its token; the token of
\* the user is the last one saved.
Saved(n) == phase[n] \in {"saved", "done", "failed"} /\ savedAs[n] \in 1 .. saves

SignInInv(n) ==
    /\ phase[n] \in {"saved", "done"} => Saved(n) /\ expiry[n] >= savedAt[n] + MinLifetime
    /\ phase[n] = "done" => jwt[n] # 0
    /\ lost[n] # "" => Saved(n)

TokenInv == token # 0 => Saved(token) /\ savedAs[token] = saves

RequestInv(r) ==
    /\ pc[r] # "idle" => owner[r] # 0 /\ Saved(owner[r])
    /\ pc[r] \in {"call", "clear"} <=> seen[r] # 0
    /\ seen[r] # 0 => Saved(seen[r])
    /\ pc[r] = "clear" => Refused(seen[r])

SessionInv(t) ==
    /\ session[t] # 0 => Saved(session[t]) /\ phase[session[t]] = "done"
    /\ t \in ended => session[t] = 0

SavedInv ==
    /\ TokenInv
    /\ \A n \in Logins : SignInInv(n)
    /\ \A r \in Requests : RequestInv(r)
    /\ \A t \in Times : SessionInv(t)

(* A token is cleared only when it has expired or the provider refuses it, *)
(* or by a sign-out - or by a request that had read an older token.        *)
NoTokenLostInVain == \A n \in Logins : lost[n] = "cause" => Refused(n)

(* A request never works with a token older than the session it was        *)
(* admitted by, in whatever order sign-ins, requests and clearings meet.   *)
NeverAnOlderToken ==
    \A r \in Requests : seen[r] # 0 => savedAs[seen[r]] >= savedAs[owner[r]]

(* After a sign-out that no sign-in overlapped, nothing is left of any     *)
(* session of the user, and no token.                                      *)
SignedOutIsOut == out = "out" => token = 0 /\ Rows = {}

\* Until somebody signs in again, nothing can bring a session back.
OutInv == out # "in" => HalfWay = {} /\ Rows = {}

(* A fresh sign-in does not send its user back to the sign-in page at      *)
(* once, whatever lifetime the provider reports.                           *)
NoLoginLoop ==
    \A n \in Logins :
        phase[n] = "done" /\ session[jwt[n]] = n /\ clock < savedAt[n] + MinLifetime => Live(jwt[n])

(* A session that was revoked, signed out or pruned admits nothing any     *)
(* more, though its JWT is still signed and current.                       *)
EndedAdmitsNothing == [][\A r \in Requests : with'[r] # with[r] => with'[r] \notin ended]_vars

IInv == TypeOK /\ SavedInv /\ OutInv /\ NeverAnOlderToken /\ NoTokenLostInVain /\ SignedOutIsOut /\ NoLoginLoop

(* Sign-ins, requests and clearings in any order: a token is not lost      *)
(* without cause, none older than the session is used, a sign-out is       *)
(* complete, and a sign-in is good for a while.                            *)
SessionsHold == IInv /\ SignedOutIsOut /\ NoLoginLoop
=============================================================================
