--------------------------- MODULE SessionsProofs ---------------------------
(***************************************************************************)
(* The safety of sign-ins, sessions and the token, for any number of       *)
(* sign-ins and requests, any lifetimes and any times.  IInv is inductive: *)
(* the order of the writes of the token (savedAs) is what relates a token  *)
(* a request has read to the sign-in of the session that admitted it.      *)
(***************************************************************************)
EXTENDS Sessions, TLAPS

LEMMA TimesAreNaturals ==
  Logins \subseteq Nat \ {0} /\ Times \subseteq Nat \ {0} /\ 1 \in Times
  BY ConstantsAssumption DEF Logins, Times

\* What the type invariant says of the values at hand.
LEMMA Typing ==
  ASSUME TypeOK
  PROVE  /\ clock \in Times /\ clock \in Nat /\ saves \in Nat
         /\ \A n \in Logins : /\ n # 0 /\ n \in Nat
                              /\ expiry[n] \in Nat /\ savedAs[n] \in Nat /\ savedAt[n] \in Nat
                              /\ lifetime[n] \in Nat
         /\ token # 0 => token \in Logins
         /\ \A r \in Requests : /\ seen[r] # 0 => seen[r] \in Logins
                                /\ owner[r] # 0 => owner[r] \in Logins
         /\ \A t \in Times : session[t] # 0 => session[t] \in Logins
  BY TimesAreNaturals DEF TypeOK

LEMMA InitIInv == Init => IInv
<1> SUFFICES ASSUME Init PROVE IInv
  OBVIOUS
<1> USE ConstantsAssumption, TimesAreNaturals DEF Init
<1>1. TypeOK
  BY DEF TypeOK
<1>2. SavedInv
  BY DEF SavedInv, SignInInv, TokenInv, RequestInv, SessionInv
<1>3. OutInv /\ NeverAnOlderToken /\ NoTokenLostInVain /\ SignedOutIsOut /\ NoLoginLoop
  BY DEF OutInv, NeverAnOlderToken, NoTokenLostInVain, SignedOutIsOut, NoLoginLoop
<1> QED
  BY <1>1, <1>2, <1>3 DEF IInv

\* A step that disturbs no sign-in that has saved its token keeps what is
\* said of the requests it leaves alone.
LEMMA RequestsStay ==
  ASSUME TypeOK, SavedInv, NeverAnOlderToken, NEW r \in Requests,
         \A n \in Logins : Saved(n) => /\ Saved(n)' /\ savedAs'[n] = savedAs[n]
                                       /\ Refused(n) => Refused(n)',
         pc'[r] = pc[r], seen'[r] = seen[r], owner'[r] = owner[r]
  PROVE  RequestInv(r)' /\ (seen'[r] # 0 => savedAs'[seen'[r]] >= savedAs'[owner'[r]])
<1>1. seen[r] # 0 => seen[r] \in Logins /\ Saved(seen[r]) /\ pc[r] # "idle"
  BY Typing DEF SavedInv, RequestInv
<1>2. pc[r] # "idle" => owner[r] # 0 /\ owner[r] \in Logins /\ Saved(owner[r])
  BY Typing DEF SavedInv, RequestInv
<1>3. RequestInv(r)
  BY DEF SavedInv
<1>4. pc'[r] # "idle" => owner'[r] # 0 /\ Saved(owner[r])'
  BY <1>2
<1>5. seen'[r] # 0 => Saved(seen[r])'
  BY <1>1
<1>6. pc'[r] = "clear" => Refused(seen[r])'
  BY <1>1, <1>3 DEF RequestInv
<1>7. RequestInv(r)'
  BY <1>3, <1>4, <1>5, <1>6 DEF RequestInv, Saved, Refused
<1>8. seen[r] # 0 => savedAs[seen[r]] >= savedAs[owner[r]]
  BY DEF NeverAnOlderToken
<1> QED
  BY <1>1, <1>2, <1>7, <1>8

-----------------------------------------------------------------------------
(* Sign-ins.                                                               *)

LEMMA AuthenticateKeepsIInv ==
  ASSUME IInv, NEW n \in Logins, NEW l \in Lifetimes, Authenticate(n, l)
  PROVE  IInv'
<1>0. TypeOK /\ clock + ChallengeTime \in Nat
  BY Typing, ConstantsAssumption DEF IInv
<1>1. /\ phase' \in [Logins -> {"none", "challenge", "granted", "saved", "done", "failed"}]
      /\ phase[n] = "none" /\ phase'[n] \in {"challenge", "granted"}
      /\ \A k \in Logins : k # n => phase'[k] = phase[k]
  BY <1>0 DEF Authenticate, TypeOK
<1>2. deadline' \in [Logins -> Nat]
  <2>1. deadline' = deadline \/ deadline' = [deadline EXCEPT ![n] = clock + ChallengeTime]
    BY DEF Authenticate
  <2> QED
    BY <1>0, <2>1 DEF TypeOK
<1> USE ConstantsAssumption, TimesAreNaturals, Typing DEF IInv
<1>3. /\ lifetime' = [lifetime EXCEPT ![n] = l] /\ out' = "in"
      /\ UNCHANGED <<clock, expiry, jwt, token, session, revoked, pc, with, seen,
                     saves, savedAs, savedAt, owner, lost, ended>>
  BY DEF Authenticate, columns, requests
<1>4. TypeOK'
  BY <1>1, <1>2, <1>3 DEF TypeOK
<1>5. \A k \in Logins : Saved(k) => /\ Saved(k)' /\ k # n /\ savedAs'[k] = savedAs[k]
                                    /\ Refused(k) => Refused(k)'
  BY <1>1, <1>3 DEF Saved, Refused
<1>6. /\ \A r \in Requests : RequestInv(r)'
      /\ NeverAnOlderToken'
  BY <1>3, <1>5, RequestsStay DEF NeverAnOlderToken
<1>7. SavedInv'
  BY <1>1, <1>3, <1>5, <1>6 DEF SavedInv, SignInInv, TokenInv, SessionInv, Saved
<1>8. OutInv' /\ SignedOutIsOut'
  BY <1>3 DEF OutInv, SignedOutIsOut
<1>9. NoTokenLostInVain'
  BY <1>3 DEF NoTokenLostInVain, Refused
<1>10. NoLoginLoop'
  BY <1>1, <1>3 DEF NoLoginLoop, Live
<1> QED
  BY <1>4, <1>6, <1>7, <1>8, <1>9, <1>10

\* Steps that change only how far a sign-in is, without saving its token.
LEMMA PhaseKeepsIInv ==
  ASSUME IInv, NEW n \in Logins, VerifyTwoFactor(n) \/ SessionFails(n)
  PROVE  IInv'
<1>0. TypeOK
  BY DEF IInv
<1>a. PICK ph \in {"granted", "failed"} :
         /\ phase' = [phase EXCEPT ![n] = ph]
         /\ phase[n] = "challenge" \/ (phase[n] = "saved" /\ ph = "failed")
  <2>1. CASE VerifyTwoFactor(n)
    <3>1. phase[n] = "challenge"
      BY <2>1 DEF VerifyTwoFactor
    <3>2. CASE clock < deadline[n]
      <4>1. phase' = [phase EXCEPT ![n] = "granted"]
        BY <2>1, <3>2 DEF VerifyTwoFactor
      <4> QED
        BY <3>1, <4>1
    <3>3. CASE ~(clock < deadline[n])
      BY <2>1, <3>1, <3>3 DEF VerifyTwoFactor
    <3> QED
      BY <3>2, <3>3
  <2>2. CASE SessionFails(n)
    BY <2>2 DEF SessionFails
  <2> QED
    BY <2>1, <2>2
<1>1. phase' \in [Logins -> {"none", "challenge", "granted", "saved", "done", "failed"}]
  BY <1>0, <1>a DEF TypeOK
<1>2. deadline' \in [Logins -> Nat]
  <2>1. deadline' = deadline \/ deadline' = [deadline EXCEPT ![n] = 0]
    BY DEF VerifyTwoFactor, SessionFails
  <2>2. deadline \in [Logins -> Nat]
    BY <1>0 DEF TypeOK
  <2> QED
    BY <2>1, <2>2
<1>3. /\ \/ phase[n] = "challenge" /\ phase'[n] \in {"granted", "failed"}
         \/ phase[n] = "saved" /\ phase'[n] = "failed"
      /\ \A k \in Logins : k # n => phase'[k] = phase[k]
  BY <1>0, <1>a DEF TypeOK
<1> USE ConstantsAssumption, TimesAreNaturals, Typing DEF IInv
<1>4. UNCHANGED <<clock, expiry, lifetime, jwt, token, session, revoked, pc, with, seen,
                  saves, savedAs, savedAt, owner, lost, ended, out>>
  BY DEF VerifyTwoFactor, SessionFails, columns, requests, hist
<1>5. TypeOK'
  BY <1>1, <1>2, <1>4 DEF TypeOK
<1>6. \A k \in Logins : Saved(k) => /\ Saved(k)' /\ savedAs'[k] = savedAs[k]
                                    /\ Refused(k) => Refused(k)'
  BY <1>3, <1>4 DEF Saved, Refused
<1>7. /\ \A r \in Requests : RequestInv(r)'
      /\ NeverAnOlderToken'
  BY <1>4, <1>6, RequestsStay DEF NeverAnOlderToken
<1>8. SavedInv'
  BY <1>3, <1>4, <1>6, <1>7 DEF SavedInv, SignInInv, TokenInv, SessionInv, Saved
<1>9. HalfWay # {} /\ out = "in"
  BY <1>3 DEF OutInv, HalfWay
<1>10. OutInv' /\ SignedOutIsOut'
  BY <1>4, <1>9 DEF OutInv, SignedOutIsOut
<1>11. NoTokenLostInVain'
  BY <1>4 DEF NoTokenLostInVain, Refused
<1>12. NoLoginLoop'
  BY <1>3, <1>4 DEF NoLoginLoop, Live
<1> QED
  BY <1>5, <1>7, <1>8, <1>10, <1>11, <1>12

LEMMA LifetimeHasAFloor ==
  ASSUME NEW l \in Nat
  PROVE  EffectiveLifetime(l) \in Nat /\ EffectiveLifetime(l) >= MinLifetime
  BY ConstantsAssumption DEF EffectiveLifetime

\* The new token is the last one saved, so no request can hold a later one.
LEMMA SaveTokenKeepsIInv ==
  ASSUME IInv, NEW n \in Logins, SaveToken(n)
  PROVE  IInv'
<1>0. TypeOK /\ clock \in Nat /\ saves \in Nat /\ lifetime[n] \in Nat
  BY Typing DEF IInv
<1>1. /\ phase[n] = "granted" /\ phase' = [phase EXCEPT ![n] = "saved"]
      /\ token' = n /\ expiry' = [expiry EXCEPT ![n] = clock + EffectiveLifetime(lifetime[n])]
      /\ saves' = saves + 1 /\ savedAs' = [savedAs EXCEPT ![n] = saves + 1]
      /\ savedAt' = [savedAt EXCEPT ![n] = clock]
      /\ UNCHANGED <<clock, deadline, lifetime, jwt, session, revoked, pc, with, seen,
                     owner, lost, ended, out>>
  BY DEF SaveToken, SavedToken, requests
<1>2. PICK e \in Nat : e >= clock + MinLifetime /\ e = clock + EffectiveLifetime(lifetime[n])
  BY <1>0, LifetimeHasAFloor, ConstantsAssumption
<1>b. expiry' = [expiry EXCEPT ![n] = e]
  BY <1>1, <1>2
<1>c. saves + 1 \in Nat
  BY <1>0
<1>3. /\ \A k \in Logins : k # n => /\ phase'[k] = phase[k] /\ expiry'[k] = expiry[k]
                                    /\ savedAs'[k] = savedAs[k] /\ savedAt'[k] = savedAt[k]
      /\ phase'[n] = "saved" /\ expiry'[n] = e /\ savedAs'[n] = saves + 1 /\ savedAt'[n] = clock
  BY <1>0, <1>1, <1>b DEF TypeOK
<1>4. TypeOK'
  <2>1. phase' \in [Logins -> {"none", "challenge", "granted", "saved", "done", "failed"}]
    BY <1>0, <1>1 DEF TypeOK
  <2>2. expiry' \in [Logins -> Nat]
    BY <1>0, <1>b DEF TypeOK
  <2>3. savedAs' \in [Logins -> Nat]
    BY <1>0, <1>1, <1>c DEF TypeOK
  <2>4. savedAt' \in [Logins -> Nat]
    BY <1>0, <1>1 DEF TypeOK
  <2>5. token' \in Logins \cup {0} /\ saves' \in Nat
    BY <1>1, <1>c
  <2> QED
    BY <1>0, <1>1, <2>1, <2>2, <2>3, <2>4, <2>5 DEF TypeOK
<1> USE ConstantsAssumption, TimesAreNaturals, Typing DEF IInv
<1>5. Saved(n)' /\ savedAs'[n] = saves' /\ ~Saved(n)
  BY <1>1, <1>3 DEF Saved
<1>6. \A k \in Logins : Saved(k) => /\ k # n /\ Saved(k)' /\ savedAs'[k] = savedAs[k]
                                    /\ Refused(k) => Refused(k)'
  BY <1>1, <1>3 DEF Saved, Refused
<1>7. /\ \A r \in Requests : RequestInv(r)'
      /\ NeverAnOlderToken'
  BY <1>1, <1>6, RequestsStay DEF NeverAnOlderToken
<1>8. TokenInv'
  BY <1>1, <1>5 DEF TokenInv, Saved
<1>9. \A k \in Logins : SignInInv(k)'
  BY <1>1, <1>2, <1>3, <1>5, <1>6 DEF SavedInv, SignInInv
<1>10. \A t \in Times : SessionInv(t)'
  <2> SUFFICES ASSUME NEW t \in Times PROVE SessionInv(t)'
    OBVIOUS
  <2>1. session[t] # 0 => session[t] \in Logins /\ Saved(session[t]) /\ phase[session[t]] = "done"
    BY DEF SavedInv, SessionInv
  <2>2. session[t] # 0 => Saved(session[t])' /\ phase'[session[t]] = "done"
    BY <1>1, <1>3, <1>5, <1>6, <2>1
  <2> QED
    BY <1>1, <2>2 DEF SavedInv, SessionInv, Saved
<1>11. out = "in"
  BY <1>1 DEF OutInv, HalfWay
<1>12. OutInv' /\ SignedOutIsOut'
  BY <1>1, <1>11 DEF OutInv, SignedOutIsOut
<1>13. NoTokenLostInVain'
  BY <1>1, <1>5, <1>6 DEF NoTokenLostInVain, SavedInv, SignInInv
<1>14. NoLoginLoop'
  BY <1>1, <1>3 DEF NoLoginLoop, Live
<1> QED
  BY <1>4, <1>7, <1>8, <1>9, <1>10, <1>12, <1>13, <1>14 DEF SavedInv

LEMMA CreateSessionKeepsIInv ==
  ASSUME IInv, NEW n \in Logins, CreateSession(n)
  PROVE  IInv'
<1>0. TypeOK /\ clock \in Times
  BY Typing DEF IInv
<1>1. /\ phase[n] = "saved" /\ phase' = [phase EXCEPT ![n] = "done"]
      /\ jwt' = [jwt EXCEPT ![n] = clock]
      /\ session' = [session EXCEPT ![clock] = IF session[clock] = 0 THEN n ELSE session[clock]]
      /\ ended' = ended \ {clock} /\ out' = "in"
      /\ UNCHANGED <<clock, deadline, expiry, lifetime, token, revoked, pc, with, seen,
                     saves, savedAs, savedAt, owner, lost>>
  BY DEF CreateSession, requests
<1>2. /\ phase'[n] = "done" /\ \A k \in Logins : k # n => phase'[k] = phase[k]
      /\ session'[clock] \in {n, session[clock]} /\ session'[clock] # 0
      /\ jwt'[n] # 0 /\ \A k \in Logins : k # n => jwt'[k] = jwt[k]
      /\ \A t \in Times : t # clock => session'[t] = session[t]
  BY <1>0, <1>1, TimesAreNaturals DEF TypeOK
<1>3. TypeOK'
  BY <1>0, <1>1 DEF TypeOK
<1> USE ConstantsAssumption, TimesAreNaturals, Typing DEF IInv
<1>4. \A k \in Logins : Saved(k) => /\ Saved(k)' /\ savedAs'[k] = savedAs[k]
                                    /\ Refused(k) => Refused(k)'
  BY <1>1, <1>2 DEF Saved, Refused
<1>5. /\ \A r \in Requests : RequestInv(r)'
      /\ NeverAnOlderToken'
  BY <1>1, <1>4, RequestsStay DEF NeverAnOlderToken
<1>6. Saved(n) /\ Saved(n)'
  BY <1>1, <1>4 DEF SavedInv, SignInInv
<1>7. \A t \in Times : SessionInv(t)'
  <2> SUFFICES ASSUME NEW t \in Times PROVE SessionInv(t)'
    OBVIOUS
  <2>1. session[t] # 0 => session[t] \in Logins /\ Saved(session[t]) /\ phase[session[t]] = "done"
    BY DEF SavedInv, SessionInv
  <2>2. session[t] # 0 => phase'[session[t]] = "done" /\ savedAs'[session[t]] \in 1 .. saves'
    BY <1>1, <1>2, <2>1 DEF Saved
  <2>4. session'[t] # 0 => session'[t] \in {session[t], n} /\ (session'[t] # n => session[t] # 0)
    BY <1>2
  <2>5. session'[t] # 0 => phase'[session'[t]] = "done" /\ savedAs'[session'[t]] \in 1 .. saves'
    BY <1>2, <1>6, <2>2, <2>4 DEF Saved
  <2>6. t \in ended' => session'[t] = 0
    BY <1>1, <1>2 DEF SavedInv, SessionInv
  <2> QED
    BY <2>5, <2>6 DEF SessionInv, Saved
<1>8. TokenInv' /\ \A k \in Logins : SignInInv(k)'
  BY <1>1, <1>2, <1>4 DEF SavedInv, TokenInv, SignInInv, Saved
<1>9. OutInv' /\ SignedOutIsOut'
  BY <1>1 DEF OutInv, SignedOutIsOut
<1>10. NoTokenLostInVain'
  BY <1>1 DEF NoTokenLostInVain, Refused
<1>11. NoLoginLoop'
  <2> SUFFICES ASSUME NEW k \in Logins, phase'[k] = "done", session'[jwt'[k]] = k,
                      clock' < savedAt'[k] + MinLifetime
               PROVE  Live(jwt[k])'
    BY DEF NoLoginLoop
  <2>1. expiry[k] >= savedAt[k] + MinLifetime
    BY <1>1, <1>2 DEF SavedInv, SignInInv
  <2> QED
    BY <1>1, <2>1 DEF Live
<1> QED
  BY <1>3, <1>5, <1>7, <1>8, <1>9, <1>10, <1>11 DEF SavedInv

LEMMA ProviderRevokesKeepsIInv ==
  ASSUME IInv, NEW n \in Logins, ProviderRevokes(n)
  PROVE  IInv'
<1> USE ConstantsAssumption, TimesAreNaturals, Typing DEF IInv
<1>1. /\ revoked \subseteq revoked' /\ revoked' \subseteq Logins
      /\ UNCHANGED <<clock, phase, deadline, expiry, lifetime, jwt, token, session, pc, with, seen,
                     saves, savedAs, savedAt, owner, lost, ended, out>>
  BY DEF ProviderRevokes, signins, requests, hist
<1>2. TypeOK'
  BY <1>1 DEF TypeOK
<1>3. \A k \in Logins : Saved(k) => /\ Saved(k)' /\ savedAs'[k] = savedAs[k]
                                    /\ Refused(k) => Refused(k)'
  BY <1>1 DEF Saved, Refused
<1>4. /\ \A r \in Requests : RequestInv(r)'
      /\ NeverAnOlderToken'
  BY <1>1, <1>3, RequestsStay DEF NeverAnOlderToken
<1>5. SavedInv'
  BY <1>1, <1>4 DEF SavedInv, SignInInv, TokenInv, SessionInv, Saved
<1>6. OutInv' /\ SignedOutIsOut' /\ NoTokenLostInVain' /\ NoLoginLoop'
  BY <1>1 DEF OutInv, HalfWay, Rows, SignedOutIsOut, NoTokenLostInVain, Refused, NoLoginLoop, Live
<1> QED
  BY <1>2, <1>4, <1>5, <1>6

LEMMA TickKeepsIInv ==
  ASSUME IInv, Tick
  PROVE  IInv'
<1>a. /\ clock' = clock + 1 /\ clock < MaxTime
      /\ UNCHANGED <<phase, deadline, expiry, lifetime, jwt, token, session, revoked, pc, with, seen,
                     saves, savedAs, savedAt, owner, lost, ended, out>>
  BY DEF Tick, signins, columns, requests, hist
<1>b. clock \in 1 .. MaxTime
  BY DEF IInv, TypeOK, Times
<1>0. /\ clock' \in Times /\ clock' \in Nat /\ clock' > clock
      /\ UNCHANGED <<phase, deadline, expiry, lifetime, jwt, token, session, revoked, pc, with, seen,
                     saves, savedAs, savedAt, owner, lost, ended, out>>
  BY ConstantsAssumption, <1>a, <1>b DEF Times
<1> USE ConstantsAssumption, TimesAreNaturals, Typing DEF IInv
<1>2. TypeOK'
  BY <1>0 DEF TypeOK
<1>3. \A k \in Logins : Saved(k) => /\ Saved(k)' /\ savedAs'[k] = savedAs[k]
                                    /\ Refused(k) => Refused(k)'
  BY <1>0 DEF Saved, Refused
<1>4. /\ \A r \in Requests : RequestInv(r)'
      /\ NeverAnOlderToken'
  BY <1>0, <1>3, RequestsStay DEF NeverAnOlderToken
<1>5. SavedInv'
  BY <1>0, <1>4 DEF SavedInv, SignInInv, TokenInv, SessionInv, Saved
<1>6. OutInv' /\ SignedOutIsOut' /\ NoTokenLostInVain'
  BY <1>0 DEF OutInv, HalfWay, Rows, SignedOutIsOut, NoTokenLostInVain, Refused
<1>7. NoLoginLoop'
  <2> SUFFICES ASSUME NEW k \in Logins, phase[k] = "done", session[jwt[k]] = k,
                      clock' < savedAt[k] + MinLifetime
               PROVE  Live(jwt[k])'
    BY <1>0 DEF NoLoginLoop
  <2>1. expiry[k] >= savedAt[k] + MinLifetime
    BY DEF SavedInv, SignInInv
  <2> QED
    BY <1>0, <2>1 DEF Live
<1> QED
  BY <1>2, <1>4, <1>5, <1>6, <1>7

-----------------------------------------------------------------------------
(* Requests.  None of them touches a sign-in or the order of the tokens.   *)

SignInsStay == UNCHANGED <<clock, phase, deadline, expiry, lifetime, jwt, revoked, saves, savedAs, savedAt>>

LEMMA SavedStays ==
  ASSUME SignInsStay
  PROVE  \A n : /\ Saved(n)' <=> Saved(n)
               /\ Refused(n)' <=> Refused(n)
  BY DEF SignInsStay, Saved, Refused

\* A request r that holds session w of sign-in o and has read token s.
LEMMA RequestMoves ==
  ASSUME TypeOK, SavedInv, NeverAnOlderToken, SignInsStay, NEW r \in Requests,
         NEW p \in {"idle", "admitted", "call", "clear", "leave"}, NEW w \in Times \cup {0},
         NEW s \in Logins \cup {0}, NEW o \in Logins \cup {0},
         pc' = [pc EXCEPT ![r] = p], with' = [with EXCEPT ![r] = w],
         seen' = [seen EXCEPT ![r] = s], owner' = [owner EXCEPT ![r] = o],
         p # "idle" => o # 0 /\ Saved(o),
         p \in {"call", "clear"} <=> s # 0,
         s # 0 => Saved(s) /\ savedAs[s] >= savedAs[o],
         p = "clear" => Refused(s)
  PROVE  /\ pc' \in [Requests -> {"idle", "admitted", "call", "clear", "leave"}]
         /\ with' \in [Requests -> Times \cup {0}] /\ seen' \in [Requests -> Logins \cup {0}]
         /\ owner' \in [Requests -> Logins \cup {0}]
         /\ \A q \in Requests : RequestInv(q)'
         /\ NeverAnOlderToken'
<1>1. /\ pc' \in [Requests -> {"idle", "admitted", "call", "clear", "leave"}]
      /\ with' \in [Requests -> Times \cup {0}] /\ seen' \in [Requests -> Logins \cup {0}]
      /\ owner' \in [Requests -> Logins \cup {0}]
  BY DEF TypeOK
<1>2. ASSUME NEW q \in Requests
      PROVE  RequestInv(q)' /\ (seen'[q] # 0 => savedAs'[seen'[q]] >= savedAs'[owner'[q]])
  <2>1. CASE q # r
    <3>1. pc'[q] = pc[q] /\ seen'[q] = seen[q] /\ owner'[q] = owner[q]
      BY <2>1 DEF TypeOK
    <3>2. \A n \in Logins : Saved(n) => /\ Saved(n)' /\ savedAs'[n] = savedAs[n]
                                        /\ Refused(n) => Refused(n)'
      BY DEF SignInsStay, Saved, Refused
    <3> QED
      BY <3>1, <3>2, RequestsStay
  <2>2. CASE q = r
    <3>1. pc'[r] = p /\ seen'[r] = s /\ owner'[r] = o
      BY DEF TypeOK
    <3> QED
      BY <2>2, <3>1 DEF RequestInv, SignInsStay, Saved, Refused
  <2> QED
    BY <2>1, <2>2
<1> QED
  BY <1>1, <1>2 DEF NeverAnOlderToken

LEMMA IdleKeeps ==
  ASSUME TypeOK, SavedInv, NeverAnOlderToken, SignInsStay, NEW r \in Requests, Idle(r)
  PROVE  /\ pc' \in [Requests -> {"idle", "admitted", "call", "clear", "leave"}]
         /\ with' \in [Requests -> Times \cup {0}] /\ seen' \in [Requests -> Logins \cup {0}]
         /\ owner' \in [Requests -> Logins \cup {0}]
         /\ \A q \in Requests : RequestInv(q)'
         /\ NeverAnOlderToken'
  BY RequestMoves, Zenon DEF Idle

\* Rows are deleted, and their JWTs are ended.
LEMMA DeleteKeeps ==
  ASSUME TypeOK, SavedInv, SignInsStay, NEW ts \in SUBSET Times, Delete(ts)
  PROVE  /\ session' \in [Times -> Logins \cup {0}] /\ ended' \subseteq Times
         /\ \A t \in Times : SessionInv(t)' /\ session'[t] \in {0, session[t]}
         /\ \A t \in Times : t \in ts => session'[t] = 0
<1>1. session' \in [Times -> Logins \cup {0}] /\ ended' \subseteq Times
  BY DEF TypeOK, Delete, Rows
<1>2. \A t \in Times : session'[t] \in {0, session[t]} /\ (t \in ts => session'[t] = 0)
  BY DEF Delete
<1>3. \A t \in Times : SessionInv(t)'
  <2> SUFFICES ASSUME NEW t \in Times PROVE SessionInv(t)'
    OBVIOUS
  <2>1. SessionInv(t)
    BY DEF SavedInv
  <2>2. t \in ended' => session'[t] = 0
    BY <1>2, <2>1 DEF SessionInv, Delete, Rows
  <2> QED
    BY <1>2, <2>1, <2>2, SavedStays DEF SessionInv, SignInsStay, Saved
<1> QED
  BY <1>1, <1>2, <1>3

\* Nothing a request does can make a session that is there less than live.
LEMMA LoginLoopStays ==
  ASSUME TypeOK, NoLoginLoop, SignInsStay,
         \A t \in Times : session'[t] \in {0, session[t]},
         session' \in [Times -> Logins \cup {0}], \A n \in Logins : SignInInv(n)
  PROVE  NoLoginLoop'
<1> SUFFICES ASSUME NEW n \in Logins, phase[n] = "done", session'[jwt[n]] = n,
                    clock < savedAt[n] + MinLifetime
             PROVE  Live(jwt[n])'
  BY DEF NoLoginLoop, SignInsStay
<1>0. jwt[n] \in Times \cup {0} /\ SignInInv(n) /\ n # 0
  BY TimesAreNaturals DEF TypeOK
<1>1. jwt[n] \in Times /\ n # 0
  BY <1>0 DEF SignInInv
<1>2. session[jwt[n]] = n
  BY <1>1
<1>3. Live(jwt[n])
  BY <1>2 DEF NoLoginLoop
<1> QED
  BY <1>1, <1>2, <1>3 DEF Live, SignInsStay

\* The token is cleared, for a reason that may blame it.
LEMMA ClearKeeps ==
  ASSUME TypeOK, SavedInv, NoTokenLostInVain, SignInsStay, NEW why \in {"cause", "robbed", "left"},
         token' = 0, lost' = Lost(why), why = "cause" /\ token # 0 => Refused(token)
  PROVE  /\ lost' \in [Logins -> {"", "cause", "robbed", "left"}]
         /\ TokenInv' /\ \A n \in Logins : SignInInv(n)'
         /\ NoTokenLostInVain'
<1>1. token # 0 => token \in Logins /\ Saved(token)
  BY Typing DEF SavedInv, TokenInv
<1>2. lost' \in [Logins -> {"", "cause", "robbed", "left"}]
  BY <1>1 DEF TypeOK, Lost
<1>3. \A n \in Logins : lost'[n] = lost[n] \/ (token # 0 /\ n = token /\ lost'[n] = why)
  BY <1>1 DEF TypeOK, Lost
<1>4. TokenInv'
  BY DEF TokenInv
<1>5. \A n \in Logins : SignInInv(n)'
  BY <1>1, <1>3 DEF SavedInv, SignInInv, SignInsStay, Saved
<1>6. NoTokenLostInVain'
  BY <1>1, <1>3 DEF NoTokenLostInVain, SignInsStay, Refused
<1> QED
  BY <1>2, <1>4, <1>5, <1>6

LEMMA RequestKeepsIInv ==
  ASSUME IInv, NEW r \in Requests, Request(r)
  PROVE  IInv'
<1>0. TypeOK /\ SavedInv /\ NeverAnOlderToken /\ NoTokenLostInVain /\ NoLoginLoop
  BY DEF IInv
<1>0a. ASSUME SignInsStay, UNCHANGED deadline,
              pc' \in [Requests -> {"idle", "admitted", "call", "clear", "leave"}],
              with' \in [Requests -> Times \cup {0}], seen' \in [Requests -> Logins \cup {0}],
              owner' \in [Requests -> Logins \cup {0}],
              token' \in Logins \cup {0}, session' \in [Times -> Logins \cup {0}],
              ended' \subseteq Times, lost' \in [Logins -> {"", "cause", "robbed", "left"}],
              out' \in {"in", "leaving", "out"}
       PROVE  TypeOK'
  BY <1>0, <1>0a DEF TypeOK, SignInsStay
<1>0b. ASSUME SignInsStay, UNCHANGED <<token, lost>>
       PROVE  /\ TokenInv' /\ \A n \in Logins : SignInInv(n)'
              /\ NoTokenLostInVain'
  BY <1>0, <1>0b DEF SavedInv, TokenInv, SignInInv, SignInsStay, Saved, NoTokenLostInVain, Refused
<1>0c. ASSUME SignInsStay, UNCHANGED <<session, ended>>
       PROVE  \A t \in Times : SessionInv(t)'
  BY <1>0, <1>0c DEF SavedInv, SessionInv, SignInsStay, Saved
<1>0d. token \in Logins \cup {0} /\ session \in [Times -> Logins \cup {0}] /\ ended \subseteq Times
       /\ lost \in [Logins -> {"", "cause", "robbed", "left"}] /\ out \in {"in", "leaving", "out"}
       /\ Rows \subseteq Times /\ with[r] \in Times \cup {0} /\ seen[r] \in Logins \cup {0}
       /\ owner[r] \in Logins \cup {0}
  BY <1>0 DEF TypeOK, Rows
<1>0e. ASSUME SignInsStay, \A t \in Times : session'[t] \in {0, session[t]},
              session' \in [Times -> Logins \cup {0}]
       PROVE  NoLoginLoop'
  BY <1>0, <1>0e, LoginLoopStays DEF SavedInv
<1>0f. ASSUME SignInsStay, UNCHANGED <<token, session, out>>
       PROVE  OutInv' /\ SignedOutIsOut' /\ NoLoginLoop'
  <2>1. NoLoginLoop'
    BY <1>0d, <1>0e, <1>0f
  <2> QED
    BY <1>0f, <2>1 DEF IInv, OutInv, SignedOutIsOut, HalfWay, Rows, SignInsStay
<1>0g. RequestInv(r)
  BY <1>0 DEF SavedInv
<1>1. ASSUME NEW t \in Times, Admit(r, t) PROVE IInv'
  <2>1. SignInsStay /\ UNCHANGED <<deadline, token, session, lost, ended, out>>
    BY <1>1 DEF Admit, SignInsStay, signins, columns
  <2>2. session[t] \in Logins /\ Saved(session[t]) /\ session[t] # 0
    BY <1>0, <1>1, Typing DEF Admit, Admits, Live, SavedInv, SessionInv
  <2>3. /\ pc' = [pc EXCEPT ![r] = "admitted"] /\ with' = [with EXCEPT ![r] = t]
        /\ seen' = [seen EXCEPT ![r] = 0] /\ owner' = [owner EXCEPT ![r] = session[t]]
    BY <1>0, <1>0g, <1>1 DEF Admit, TypeOK, RequestInv
  <2>4. /\ pc' \in [Requests -> {"idle", "admitted", "call", "clear", "leave"}]
        /\ with' \in [Requests -> Times \cup {0}] /\ seen' \in [Requests -> Logins \cup {0}]
        /\ owner' \in [Requests -> Logins \cup {0}]
        /\ \A q \in Requests : RequestInv(q)'
        /\ NeverAnOlderToken'
    BY <1>0, <2>1, <2>2, <2>3, RequestMoves
  <2> QED
    BY <1>0a, <1>0b, <1>0c, <1>0d, <1>0f, <2>1, <2>4 DEF IInv, SavedInv
<1>2. CASE ReadUser(r)
  <2>1. SignInsStay /\ UNCHANGED <<deadline, token, session, lost, ended, out>>
    BY <1>2 DEF ReadUser, SignInsStay, signins, columns
  <2>2. /\ pc' \in [Requests -> {"idle", "admitted", "call", "clear", "leave"}]
        /\ with' \in [Requests -> Times \cup {0}] /\ seen' \in [Requests -> Logins \cup {0}]
        /\ owner' \in [Requests -> Logins \cup {0}]
        /\ \A q \in Requests : RequestInv(q)'
        /\ NeverAnOlderToken'
    <3>1. CASE token = 0
      BY <1>0, <1>2, <2>1, <3>1, IdleKeeps DEF ReadUser
    <3>2. CASE token # 0
      <4>1. PICK p \in {"clear", "call"} : /\ p = "clear" => Refused(token)
                                          /\ pc' = [pc EXCEPT ![r] = p]
        <5>1. CASE expiry[token] <= clock
          BY <1>2, <3>2, <5>1 DEF ReadUser, Refused
        <5>2. CASE ~(expiry[token] <= clock)
          BY <1>2, <3>2, <5>2 DEF ReadUser
        <5> QED
          BY <5>1, <5>2
      <4>2. /\ seen' = [seen EXCEPT ![r] = token] /\ with' = [with EXCEPT ![r] = with[r]]
            /\ owner' = [owner EXCEPT ![r] = owner[r]] /\ pc[r] = "admitted"
        BY <1>0, <1>2, <3>2 DEF ReadUser, TypeOK
      <4>3. owner[r] # 0 /\ owner[r] \in Logins /\ Saved(owner[r]) /\ token \in Logins
            /\ Saved(token) /\ savedAs[token] = saves
        BY <1>0, <1>0g, <3>2, <4>2, Typing DEF RequestInv, SavedInv, TokenInv
      <4>4. savedAs[token] >= savedAs[owner[r]]
        BY <4>3, <1>0, Typing DEF Saved
      <4>8. p = "clear" => Refused(token)
        BY <4>1
      <4> QED
        <5>1. \A w \in Times \cup {0}, o \in Logins \cup {0}, t \in Logins \cup {0} :
                 /\ seen' = [seen EXCEPT ![r] = t] /\ with' = [with EXCEPT ![r] = w]
                 /\ owner' = [owner EXCEPT ![r] = o]
                 /\ t # 0 /\ o # 0 /\ Saved(o) /\ Saved(t) /\ savedAs[t] >= savedAs[o]
                 /\ p = "clear" => Refused(t)
                 => /\ pc' \in [Requests -> {"idle", "admitted", "call", "clear", "leave"}]
                    /\ with' \in [Requests -> Times \cup {0}] /\ seen' \in [Requests -> Logins \cup {0}]
                    /\ owner' \in [Requests -> Logins \cup {0}]
                    /\ \A q \in Requests : RequestInv(q)'
                    /\ NeverAnOlderToken'
          BY <1>0, <2>1, <4>1, RequestMoves
        <5> QED
          BY <1>0d, <3>2, <4>2, <4>3, <4>4, <4>8, <5>1
    <3> QED
      BY <3>1, <3>2
  <2> QED
    BY <1>0a, <1>0b, <1>0c, <1>0d, <1>0f, <2>1, <2>2 DEF IInv, SavedInv
<1>3. CASE CallRefused(r)
  <2>1. SignInsStay /\ UNCHANGED <<deadline, token, session, lost, ended, out>>
    BY <1>3 DEF CallRefused, SignInsStay, signins, columns, hist
  <2>2. /\ pc' = [pc EXCEPT ![r] = "clear"] /\ seen' = [seen EXCEPT ![r] = seen[r]]
        /\ with' = [with EXCEPT ![r] = with[r]] /\ owner' = [owner EXCEPT ![r] = owner[r]]
        /\ pc[r] = "call" /\ Refused(seen[r])
    BY <1>0, <1>3 DEF CallRefused, TypeOK, hist
  <2>3. owner[r] # 0 /\ Saved(owner[r]) /\ seen[r] # 0 /\ Saved(seen[r])
        /\ savedAs[seen[r]] >= savedAs[owner[r]]
    BY <1>0, <1>0g, <2>2 DEF RequestInv, NeverAnOlderToken
  <2>4. /\ pc' \in [Requests -> {"idle", "admitted", "call", "clear", "leave"}]
        /\ with' \in [Requests -> Times \cup {0}] /\ seen' \in [Requests -> Logins \cup {0}]
        /\ owner' \in [Requests -> Logins \cup {0}]
        /\ \A q \in Requests : RequestInv(q)'
        /\ NeverAnOlderToken'
    BY <1>0, <1>0d, <2>1, <2>2, <2>3, RequestMoves
  <2> QED
    BY <1>0a, <1>0b, <1>0c, <1>0d, <1>0f, <2>1, <2>4 DEF IInv, SavedInv
<1>4. CASE CallEnds(r)
  <2>1. SignInsStay /\ UNCHANGED <<deadline, token, session, lost, ended, out>> /\ Idle(r)
    BY <1>4 DEF CallEnds, SignInsStay, signins, columns
  <2> QED
    BY <1>0, <1>0a, <1>0b, <1>0c, <1>0d, <1>0f, <2>1, IdleKeeps DEF IInv, SavedInv
<1>5. CASE ClearToken(r)
  <2>1. SignInsStay /\ UNCHANGED <<deadline, session, ended, out>> /\ Idle(r) /\ token' = 0
    BY <1>5 DEF ClearToken, SignInsStay, signins
  <2>2. PICK why \in {"cause", "robbed"} : lost' = Lost(why) /\ (why = "cause" => token = seen[r])
    BY <1>5, Zenon DEF ClearToken
  <2>3. Refused(seen[r])
    BY <1>0g, <1>5 DEF RequestInv, ClearToken
  <2>4. /\ lost' \in [Logins -> {"", "cause", "robbed", "left"}]
        /\ TokenInv' /\ \A n \in Logins : SignInInv(n)'
        /\ NoTokenLostInVain'
    BY <1>0, <2>1, <2>2, <2>3, ClearKeeps
  <2>5. OutInv' /\ SignedOutIsOut' /\ NoLoginLoop'
    <3>1. NoLoginLoop'
      BY <1>0d, <1>0e, <2>1
    <3> QED
      BY <2>1, <3>1 DEF IInv, OutInv, SignedOutIsOut, HalfWay, Rows, SignInsStay
  <2> QED
    BY <1>0, <1>0a, <1>0c, <1>0d, <2>1, <2>4, <2>5, IdleKeeps DEF IInv, SavedInv
<1>6. CASE Logout(r)
  <2>1. SignInsStay /\ UNCHANGED <<deadline, token, lost>> /\ Delete(Rows)
        /\ out' = IF HalfWay = {} THEN "leaving" ELSE "in"
    BY <1>6 DEF Logout, Leaves, SignInsStay, signins
  <2>2. /\ pc' = [pc EXCEPT ![r] = "leave"] /\ seen' = [seen EXCEPT ![r] = 0]
        /\ with' = [with EXCEPT ![r] = with[r]] /\ owner' = [owner EXCEPT ![r] = owner[r]]
        /\ pc[r] = "admitted"
    BY <1>0, <1>0g, <1>6 DEF Logout, TypeOK, RequestInv
  <2>3. owner[r] # 0 /\ Saved(owner[r])
    BY <1>0g, <2>2 DEF RequestInv
  <2>4. /\ pc' \in [Requests -> {"idle", "admitted", "call", "clear", "leave"}]
        /\ with' \in [Requests -> Times \cup {0}] /\ seen' \in [Requests -> Logins \cup {0}]
        /\ owner' \in [Requests -> Logins \cup {0}]
        /\ \A q \in Requests : RequestInv(q)'
        /\ NeverAnOlderToken'
    BY <1>0, <1>0d, <2>1, <2>2, <2>3, RequestMoves
  <2>5. /\ session' \in [Times -> Logins \cup {0}] /\ ended' \subseteq Times
        /\ \A t \in Times : SessionInv(t)' /\ session'[t] \in {0, session[t]}
        /\ \A t \in Times : t \in Rows => session'[t] = 0
    BY <1>0, <1>0d, <2>1, DeleteKeeps
  <2>6. Rows' = {}
    BY <2>5 DEF Rows
  <2>7. OutInv' /\ SignedOutIsOut'
    BY <2>1, <2>6 DEF OutInv, SignedOutIsOut, HalfWay, SignInsStay
  <2>8. NoLoginLoop'
    BY <1>0e, <2>1, <2>5
  <2>9. out' \in {"in", "leaving", "out"}
    BY <2>1
  <2> QED
    BY <1>0a, <1>0b, <1>0d, <2>1, <2>4, <2>5, <2>7, <2>8, <2>9 DEF IInv, SavedInv
<1>7. CASE LogoutClears(r)
  <2>1. SignInsStay /\ UNCHANGED <<deadline, session, ended>> /\ Idle(r) /\ token' = 0
        /\ lost' = Lost("left") /\ out' = IF out = "leaving" THEN "out" ELSE out
    BY <1>7 DEF LogoutClears, SignInsStay, signins
  <2>2. /\ lost' \in [Logins -> {"", "cause", "robbed", "left"}]
        /\ TokenInv' /\ \A n \in Logins : SignInInv(n)'
        /\ NoTokenLostInVain'
    BY <1>0, <2>1, ClearKeeps
  <2>3. out' \in {"in", "leaving", "out"} /\ (out' # "in" => out # "in")
    BY <1>0d, <2>1
  <2>4. NoLoginLoop'
    BY <1>0d, <1>0e, <2>1
  <2>5. OutInv' /\ SignedOutIsOut'
    BY <2>1, <2>3 DEF IInv, OutInv, SignedOutIsOut, HalfWay, Rows, SignInsStay
  <2> QED
    BY <1>0, <1>0a, <1>0c, <1>0d, <2>1, <2>2, <2>3, <2>4, <2>5, IdleKeeps DEF IInv, SavedInv
<1>8. ASSUME NEW ts \in SUBSET Times, Revoke(r, ts) PROVE IInv'
  <2>1. SignInsStay /\ UNCHANGED <<deadline, token, lost, out>> /\ Delete(ts) /\ Idle(r)
    BY <1>8 DEF Revoke, SignInsStay, signins
  <2>2. /\ session' \in [Times -> Logins \cup {0}] /\ ended' \subseteq Times
        /\ \A t \in Times : SessionInv(t)' /\ session'[t] \in {0, session[t]}
    BY <1>0, <2>1, DeleteKeeps
  <2>3. NoLoginLoop'
    BY <1>0e, <2>1, <2>2
  <2>4. OutInv' /\ SignedOutIsOut'
    BY <2>1, <2>2 DEF IInv, OutInv, SignedOutIsOut, HalfWay, Rows, SignInsStay
  <2> QED
    BY <1>0, <1>0a, <1>0b, <1>0d, <2>1, <2>2, <2>3, <2>4, IdleKeeps DEF IInv, SavedInv
<1> QED
  <2>1. \A t \in Rows : {t} \in SUBSET Times
    BY <1>0d
  <2>2. Rows \ {with[r]} \in SUBSET Times
    BY <1>0d
  <2> QED
    BY <1>1, <1>2, <1>3, <1>4, <1>5, <1>6, <1>7, <1>8, <2>1, <2>2 DEF Request

LEMMA PruneKeepsIInv ==
  ASSUME IInv, Prune
  PROVE  IInv'
<1>0. TypeOK /\ SavedInv /\ NeverAnOlderToken /\ NoTokenLostInVain /\ NoLoginLoop
  BY DEF IInv
<1>1. PICK ts \in SUBSET Times : Delete(ts)
  BY DEF Prune, Rows
<1>2. SignInsStay /\ UNCHANGED <<deadline, token, pc, with, seen, owner, lost, out>>
  BY DEF Prune, SignInsStay, signins, requests
<1>3. /\ session' \in [Times -> Logins \cup {0}] /\ ended' \subseteq Times
      /\ \A t \in Times : SessionInv(t)' /\ session'[t] \in {0, session[t]}
  BY <1>0, <1>1, <1>2, DeleteKeeps
<1>4. TypeOK'
  BY <1>0, <1>2, <1>3 DEF TypeOK, SignInsStay
<1>5. TokenInv' /\ \A n \in Logins : SignInInv(n)'
  BY <1>0, <1>2 DEF SavedInv, TokenInv, SignInInv, SignInsStay, Saved
<1>6. \A r \in Requests : RequestInv(r)'
  BY <1>0, <1>2 DEF SavedInv, RequestInv, SignInsStay, Saved, Refused
<1>7. NeverAnOlderToken' /\ NoTokenLostInVain'
  BY <1>0, <1>2 DEF NeverAnOlderToken, NoTokenLostInVain, SignInsStay, Refused
<1>8. OutInv' /\ SignedOutIsOut'
  BY <1>2, <1>3 DEF IInv, OutInv, SignedOutIsOut, HalfWay, Rows, SignInsStay
<1>9. NoLoginLoop'
  BY <1>0, <1>2, <1>3, LoginLoopStays DEF SavedInv
<1> QED
  BY <1>3, <1>4, <1>5, <1>6, <1>7, <1>8, <1>9 DEF IInv, SavedInv

LEMMA StepKeepsIInv == IInv /\ [Next]_vars => IInv'
<1> SUFFICES ASSUME IInv, [Next]_vars PROVE IInv'
  OBVIOUS
<1>1. ASSUME NEW n \in Logins, SignIn(n) PROVE IInv'
  BY <1>1, AuthenticateKeepsIInv, PhaseKeepsIInv, SaveTokenKeepsIInv, CreateSessionKeepsIInv,
     ProviderRevokesKeepsIInv DEF SignIn
<1>2. ASSUME NEW r \in Requests, Request(r) PROVE IInv'
  BY <1>2, RequestKeepsIInv
<1>3. CASE Prune \/ Tick
  BY <1>3, PruneKeepsIInv, TickKeepsIInv
<1>4. CASE UNCHANGED vars
  <2>1. SignInsStay /\ UNCHANGED <<deadline, token, session, pc, with, seen, owner, lost, ended, out>>
    BY <1>4 DEF vars, signins, columns, requests, hist, SignInsStay
  <2>2. TypeOK'
    BY <2>1 DEF IInv, TypeOK, SignInsStay
  <2>3. SavedInv'
    BY <2>1 DEF IInv, SavedInv, TokenInv, SignInInv, RequestInv, SessionInv, Saved, Refused, SignInsStay
  <2>4. OutInv' /\ NeverAnOlderToken' /\ NoTokenLostInVain' /\ SignedOutIsOut' /\ NoLoginLoop'
    BY <2>1 DEF IInv, OutInv, HalfWay, Rows, NeverAnOlderToken, NoTokenLostInVain, SignedOutIsOut,
       NoLoginLoop, Live, Refused, SignInsStay
  <2> QED
    BY <2>2, <2>3, <2>4 DEF IInv
<1> QED
  BY <1>1, <1>2, <1>3, <1>4 DEF Next

-----------------------------------------------------------------------------
(* Every reachable state satisfies the inductive invariant.                *)
THEOREM InductiveInvariant == Spec => []IInv
  BY InitIInv, StepKeepsIInv, PTL DEF Spec

(* Only a token that has expired, or that the provider refuses, is cleared *)
(* by the request that found it so.                                        *)
THEOREM TokensAreLostForACause == Spec => []NoTokenLostInVain
<1>1. IInv => NoTokenLostInVain
  BY DEF IInv
<1> QED
  BY <1>1, InductiveInvariant, PTL

(* A request never uses a token saved before the one of its own session.   *)
THEOREM TokensNeverGoBack == Spec => []NeverAnOlderToken
<1>1. IInv => NeverAnOlderToken
  BY DEF IInv
<1> QED
  BY <1>1, InductiveInvariant, PTL

(* A sign-out that no sign-in overlapped leaves no session and no token.   *)
THEOREM SigningOutIsComplete == Spec => []SignedOutIsOut
<1>1. IInv => SignedOutIsOut
  BY DEF IInv
<1> QED
  BY <1>1, InductiveInvariant, PTL

(* A fresh session is good for the shortest lifetime at least.             *)
THEOREM FreshSessionsLast == Spec => []NoLoginLoop
<1>1. IInv => NoLoginLoop
  BY DEF IInv
<1> QED
  BY <1>1, InductiveInvariant, PTL

LEMMA StepAdmitsNoEnded ==
  ASSUME IInv, [Next]_vars, NEW r \in Requests, with'[r] # with[r]
  PROVE  with'[r] \notin ended
<1>0. ended \subseteq Times /\ with \in [Requests -> Times \cup {0}] /\ 0 \notin ended
  BY TimesAreNaturals DEF IInv, TypeOK
<1>1. ASSUME NEW q \in Requests, with' = [with EXCEPT ![q] = 0] PROVE with'[r] \notin ended
  BY <1>0, <1>1
<1>2. ASSUME NEW q \in Requests, NEW t \in Times, Admit(q, t) PROVE with'[r] \notin ended
  <2>1. t \notin ended
    BY <1>2 DEF Admit, Admits, Live, IInv, SavedInv, SessionInv
  <2> QED
    BY <1>0, <1>2, <2>1 DEF Admit
<1>3. ASSUME NEW q \in Requests, Request(q) PROVE with'[r] \notin ended
  BY <1>1, <1>2, <1>3 DEF Request, ReadUser, CallRefused, CallEnds, ClearToken, Logout, LogoutClears,
     Revoke, Idle, hist
<1>4. ASSUME NEW n \in Logins, SignIn(n) PROVE FALSE
  BY <1>4 DEF SignIn, Authenticate, VerifyTwoFactor, SaveToken, CreateSession, SessionFails,
     ProviderRevokes, requests
<1>5. ~(Prune \/ Tick \/ UNCHANGED vars)
  BY DEF Prune, Tick, vars, requests
<1> QED
  BY <1>3, <1>4, <1>5 DEF Next

(* No session that has ended admits a request any more.                    *)
THEOREM EndedSessionsAdmitNothing == Spec => EndedAdmitsNothing
<1>1. IInv /\ [Next]_vars => [\A r \in Requests : with'[r] # with[r] => with'[r] \notin ended]_vars
  BY StepAdmitsNoEnded
<1> QED
  BY <1>1, InductiveInvariant, PTL DEF Spec, EndedAdmitsNothing

(* No token is lost without cause, none older than the session is used, a  *)
(* sign-out is complete and a sign-in lasts for a while.                   *)
THEOREM SessionsAlwaysHold == Spec => []SessionsHold
  BY InductiveInvariant, SigningOutIsComplete, FreshSessionsLast, PTL DEF SessionsHold
=============================================================================
