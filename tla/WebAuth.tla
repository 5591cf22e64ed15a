------------------------------ MODULE WebAuth -------------------------------
(***************************************************************************)
(* Signing in to the browser console: the stored device token and the      *)
(* request wrapper that drops it (api.ts), the phase that decides between  *)
(* login form and application (hooks/useAuth.ts, App.tsx), the one probe   *)
(* of the server's auth profile shared by all components                   *)
(* (hooks/useAuthProfile.ts), the passkey ceremonies (hooks/usePasskey.ts) *)
(* and the forms that start them (Login.tsx, SudoModal.tsx).               *)
(*                                                                         *)
(* Every request is sent, served and answered in three steps, so answers   *)
(* may come late.  phase is what was set last, shown what React last       *)
(* rendered.  Tokens are numbers, 0 is none.  localStorage may refuse a    *)
(* write, and other tabs write it too; nobody is told of either.           *)
(***************************************************************************)
EXTENDS Naturals, FiniteSets

CONSTANTS MaxTokens,   \* bound on issued tokens
          MaxFaults,   \* bound on lost, throttled and failed requests and refused writes
          MaxCalls,    \* bound on requests of the application shell
          CanEnroll    \* this origin can host a passkey ceremony

ASSUME AuthAssumption ==
    {MaxTokens, MaxFaults, MaxCalls} \subseteq Nat /\ CanEnroll \in BOOLEAN

VARIABLES
    stored,  \* the token in localStorage, shared by all tabs
    tok,     \* useAuth's token state
    eff,     \* the token its status effect last ran for
    phase, shown,
    req,     \* kind of request |-> its progress, token and answer
    cache,   \* cachedSnapshot: "none", "ok" or "failed"
    probe,   \* the profile probe that may fill it is in flight
    stale,   \* aborted profile probes that have not settled
    waiter,  \* setPassword awaits: "none", the "live" probe or a "stale" one
    held,    \* the countdown of a 429 disables the form
    valid, issued, pwSet,      \* the server: accepted tokens, password set
    faults, calls,
    raced,   \* a late answer changed the phase after the token had changed
    drifted  \* since useAuth last read it, the token in the store was changed
             \* by another tab, or a write of this one was refused

clientVars == <<stored, tok, phase, drifted>>
profVars   == <<cache, probe, stale, waiter>>
serverVars == <<valid, issued, pwSet>>
vars == <<clientVars, eff, shown, req, profVars, held, serverVars, faults, calls, raced>>

Kinds == {"status", "refresh", "login", "setpw", "logout", "api", "reauth",
          "pklogin", "enroll"}
NoReq == [at |-> "idle", tok |-> 0, res |-> "none", new |-> 0]
Busy(k) == req[k].at # "idle"

LoginMounted(p) == p \in {"unauthed", "setup", "authed-pending-enroll"}

Init ==
    /\ \E t \in {0, 1} :             \* a token from an earlier visit, or none
         /\ stored = t /\ tok = t
         /\ phase = (IF t = 0 THEN "loading" ELSE "authed")
         /\ issued = t
         /\ valid \in {{}, {t} \ {0}}
         /\ req = [k \in Kinds |-> IF k = "status" /\ t = 0
                                   THEN [NoReq EXCEPT !.at = "sent"] ELSE NoReq]
    /\ pwSet \in {b \in BOOLEAN : issued # 0 => b}
    /\ eff = tok /\ shown = phase
    /\ cache = "none" /\ probe = FALSE /\ stale = 0 /\ waiter = "none"
    /\ held = FALSE /\ faults = 0 /\ calls = 0 /\ raced = FALSE /\ drifted = FALSE

-----------------------------------------------------------------------------
(* The token *)

\* setItem, which may throw; the exception is only logged
Write(t) == \/ stored' = t /\ UNCHANGED faults
            \/ stored' = stored /\ faults < MaxFaults /\ faults' = faults + 1

\* the phase the listener in useAuth derives from the token it reads back
PhaseFor(t) == IF t # 0 THEN "authed"
               ELSE IF phase = "setup" THEN "setup" ELSE "unauthed"
Listen == /\ tok' = stored' /\ phase' = PhaseFor(stored')
          /\ raced' = FALSE /\ drifted' = FALSE

\* mutant: the listeners are not told
StoreToken_Silent(t) == Write(t) /\ UNCHANGED <<tok, phase, raced, drifted>>

\* setWebToken and its listener
StoreToken(t) == Write(t) /\ Listen

\* setWebToken, followed by setToken and a phase whatever was stored
AdoptToken(t, p) ==
    /\ Write(t)
    /\ tok' = t /\ phase' = p
    /\ raced' = FALSE /\ drifted' = (stored' # t)

\* clearWebToken and its listener
ClearToken == stored' = 0 /\ Listen /\ UNCHANGED faults

KeepToken == UNCHANGED <<clientVars, raced, faults>>

\* apiFetch: a 401 or 403 to a request that carried a token drops whatever
\* token is stored by now
Rejected(r) == r.res \in {"401", "403"} /\ r.tok # 0

-----------------------------------------------------------------------------
(* The server *)

Fresh == issued < MaxTokens

\* the password was right, or the passkey accepted
Grant(k) ==
    /\ Fresh /\ issued' = issued + 1 /\ valid' = valid \cup {issued'}
    /\ req' = [req EXCEPT ![k].at = "answered", ![k].res = "200", ![k].new = issued']
Answer(k, res) ==
    /\ req' = [req EXCEPT ![k].at = "answered", ![k].res = res]
    /\ UNCHANGED <<valid, issued>>

Serve(k) ==
    /\ req[k].at = "sent"
    /\ \/ k \in {"status", "refresh"} /\ Answer(k, IF pwSet THEN "login" ELSE "setup")
          /\ UNCHANGED pwSet
       \/ k = "login" /\ pwSet /\ (Grant(k) \/ Answer(k, "401")) /\ UNCHANGED pwSet
       \/ k = "login" /\ ~pwSet /\ Answer(k, "401") /\ UNCHANGED pwSet
       \/ k = "setpw" /\ pwSet /\ Answer(k, "409") /\ UNCHANGED pwSet
       \/ k = "setpw" /\ ~pwSet /\ Grant(k) /\ pwSet' = TRUE
       \/ k = "pklogin" /\ (Grant(k) \/ Answer(k, "400")) /\ UNCHANGED pwSet
       \/ /\ k = "logout"
          /\ req' = [req EXCEPT ![k].at = "answered", ![k].res = "200"]
          /\ valid' = valid \ {req[k].tok}
          /\ UNCHANGED <<issued, pwSet>>
       \/ /\ k \in {"api", "reauth", "enroll"} /\ req[k].tok \notin valid
          /\ Answer(k, "401") /\ UNCHANGED pwSet
       \/ k = "api" /\ req[k].tok \in valid /\ Answer(k, "200") /\ UNCHANGED pwSet
       \* a wrong password is a 401 as well
       \/ /\ k = "reauth" /\ req[k].tok \in valid
          /\ \E res \in {"200", "401"} : Answer(k, res)
          /\ UNCHANGED pwSet
       \* the enterprise profile's sudo gate is a 403
       \/ /\ k = "enroll" /\ req[k].tok \in valid
          /\ \E res \in {"200", "403"} : Answer(k, res)
          /\ UNCHANGED pwSet
    /\ UNCHANGED <<clientVars, eff, shown, profVars, held, faults, calls, raced>>

\* the request is lost, throttled (429) or fails (5xx); one may still be
\* served although its answer is lost
Fail(k) ==
    /\ req[k].at \in {"sent", "answered"} /\ faults < MaxFaults
    /\ faults' = faults + 1
    /\ \E res \in {"lost", "429"} :
         req' = [req EXCEPT ![k].at = "answered", ![k].res = res]
    /\ UNCHANGED <<clientVars, eff, shown, profVars, held, serverVars, calls, raced>>

\* wisphive set-password in a terminal; a device revoked elsewhere
ExternalPassword ==
    /\ ~pwSet /\ pwSet' = TRUE
    /\ UNCHANGED <<clientVars, eff, shown, req, profVars, held, valid, issued, faults, calls, raced>>
Revoke(t) ==
    /\ t \in valid /\ valid' = valid \ {t}
    /\ UNCHANGED <<clientVars, eff, shown, req, profVars, held, issued, pwSet, faults, calls, raced>>


\* Another tab of this browser shares the store.  It signs in, or drops the
\* token when it signs out or is rejected; this one has no "storage" listener.
OtherTabSignsIn ==
    /\ pwSet /\ Fresh /\ issued' = issued + 1 /\ valid' = valid \cup {issued'}
    /\ stored' = issued' /\ drifted' = TRUE
    /\ UNCHANGED <<tok, phase, eff, shown, req, profVars, held, pwSet, faults, calls, raced>>
OtherTabClears ==
    /\ stored # 0 /\ stored' = 0 /\ drifted' = TRUE
    /\ valid' \in {valid, valid \ {stored}}
    /\ UNCHANGED <<tok, phase, eff, shown, req, profVars, held, issued, pwSet, faults, calls, raced>>

-----------------------------------------------------------------------------
(* Starting requests: Login.tsx, SudoModal.tsx, the shell *)

Send(k) == req' = [req EXCEPT ![k] = [NoReq EXCEPT !.at = "sent", !.tok = stored]]
Started == UNCHANGED <<clientVars, eff, shown, profVars, held, serverVars, faults, raced>>

\* submitting, countdown and passkeyBusy disable the whole form; a form that
\* is mounted anew knows nothing of a setPassword that still waits
FormIdle == ~held /\ waiter # "live" /\ \A k \in {"login", "setpw", "pklogin", "enroll"} : ~Busy(k)

SubmitForm ==
    /\ FormIdle
    /\ \/ shown = "setup" /\ waiter = "none" /\ Send("setpw")
       \/ shown = "unauthed" /\ Send("login")
    /\ Started /\ UNCHANGED calls

\* "I set it in a terminal - reload"
RefreshStatus ==
    /\ shown = "setup" /\ ~Busy("refresh") /\ ~Busy("setpw") /\ waiter # "live" /\ calls < MaxCalls
    /\ Send("refresh") /\ calls' = calls + 1
    /\ Started

LoginWithPasskey ==
    /\ shown = "unauthed" /\ FormIdle /\ cache = "ok" /\ CanEnroll
    /\ Send("pklogin")
    /\ Started /\ UNCHANGED calls

EnrollPasskey ==
    /\ shown = "authed-pending-enroll" /\ FormIdle
    /\ Send("enroll")
    /\ Started /\ UNCHANGED calls

\* a config read, a connection probe; the password prompt; signing out
ShellCall(k) ==
    /\ shown = "authed" /\ ~Busy(k) /\ calls < MaxCalls
    /\ calls' = calls + 1
    /\ Send(k)
    /\ Started

\* completeEnrollGate: skipped
SkipEnroll ==
    /\ shown = "authed-pending-enroll" /\ ~Busy("enroll")
    /\ phase' = IF phase = "authed-pending-enroll" THEN "authed" ELSE phase
    /\ UNCHANGED <<stored, tok, drifted, eff, shown, req, profVars, held, serverVars, faults, calls, raced>>

-----------------------------------------------------------------------------
(* Answers *)

Done(k) == req' = [req EXCEPT ![k] = NoReq]
Settled(k) ==
    /\ req[k].at = "answered" /\ Done(k)
    /\ UNCHANGED <<eff, shown, serverVars, calls>>
\* what apiFetch does before the caller sees the answer
Wrapped(k) == IF Rejected(req[k]) THEN ClearToken ELSE KeepToken

\* probeStatus: any failure shows the login form
StatusAnswered(k) ==
    /\ Settled(k)
    /\ phase' = IF req[k].res = "setup" THEN "setup" ELSE "unauthed"
    /\ raced' = (raced \/ tok # 0)
    /\ UNCHANGED <<stored, tok, drifted, faults, profVars, held>>

LoginAnswered ==
    /\ Settled("login")
    /\ IF req["login"].res = "200" THEN AdoptToken(req["login"].new, "authed")
       ELSE Wrapped("login")
    /\ held' = (req["login"].res = "429")
    /\ UNCHANGED profVars

\* the phase setPassword ends in
AfterSetPassword(enrollable) ==
    IF enrollable THEN "authed-pending-enroll" ELSE "authed"

\* setPassword: the token is stored, then the profile awaited: answered from
\* the cache before React renders, else by the running or a new probe, until
\* when the phase is what the listener read back
SetPasswordAnswered ==
    /\ Settled("setpw")
    /\ \/ /\ req["setpw"].res = "200" /\ cache = "ok"
          /\ AdoptToken(req["setpw"].new, AfterSetPassword(CanEnroll))
          /\ UNCHANGED profVars
       \/ /\ req["setpw"].res = "200" /\ cache # "ok"
          /\ AdoptToken(req["setpw"].new, PhaseFor(stored'))
          /\ probe' = TRUE /\ waiter' = "live"
          /\ UNCHANGED <<cache, stale>>
       \/ /\ req["setpw"].res = "409"
          /\ phase' = "unauthed" /\ raced' = (raced \/ tok # 0)
          /\ UNCHANGED <<stored, tok, drifted, faults, profVars>>
       \/ /\ req["setpw"].res \notin {"200", "409"}
          /\ Wrapped("setpw") /\ UNCHANGED profVars
    /\ held' = (req["setpw"].res = "429")

\* A ceremony that failed, or whose requests were aborted with the Login
\* form: whatever the class of the error, only a message comes of it
CeremonyFailed(k) == req[k].res # "200" \/ ~LoginMounted(shown)

PasskeyLoginAnswered ==
    /\ Settled("pklogin")
    /\ IF ~CeremonyFailed("pklogin")
       THEN StoreToken(req["pklogin"].new) ELSE Wrapped("pklogin")
    /\ UNCHANGED <<profVars, held>>

EnrollAnswered ==
    /\ Settled("enroll")
    /\ IF ~CeremonyFailed("enroll")
       THEN /\ phase' = IF phase = "authed-pending-enroll" THEN "authed" ELSE phase
            /\ UNCHANGED <<stored, tok, drifted, raced, faults>>
       ELSE Wrapped("enroll")
    /\ UNCHANGED <<profVars, held>>

\* logout() clears whatever the answer; the others only through apiFetch
ShellAnswered(k) ==
    /\ Settled(k)
    /\ IF k = "logout" THEN ClearToken ELSE Wrapped(k)
    /\ UNCHANGED <<profVars, held>>

CountdownEnds ==
    /\ held /\ held' = FALSE
    /\ UNCHANGED <<clientVars, eff, shown, req, profVars, serverVars, faults, calls, raced>>

-----------------------------------------------------------------------------
(* The profile probe *)

\* setPassword resumes with what its promise gave
Resume(from, enrollable) ==
    IF waiter # from THEN UNCHANGED <<clientVars, raced, waiter>>
    ELSE /\ waiter' = "none"
         /\ phase' = AfterSetPassword(enrollable)
         /\ raced' = (raced \/ tok = 0)
         /\ UNCHANGED <<stored, tok, drifted>>

ProfileAnswered ==
    /\ probe
    /\ \/ cache' = "ok" /\ Resume("live", CanEnroll) /\ UNCHANGED faults
       \/ /\ faults < MaxFaults /\ faults' = faults + 1
          /\ cache' = "failed" /\ Resume("live", FALSE)
    /\ probe' = FALSE
    /\ UNCHANGED <<eff, shown, req, stale, held, serverVars, calls>>

\* mutant: an aborted probe publishes its failure all the same
AbortedSettles_Publishes ==
    /\ stale > 0 /\ stale' = stale - 1
    /\ cache' = "failed" /\ Resume("stale", FALSE)
    /\ UNCHANGED <<eff, shown, req, probe, held, serverVars, faults, calls>>

\* an aborted probe rejects; its result goes to whoever awaited it and not
\* to the cache
AbortedSettles ==
    /\ stale > 0 /\ stale' = stale - 1
    /\ Resume("stale", FALSE)
    /\ UNCHANGED <<eff, shown, req, cache, probe, held, serverVars, faults, calls>>

-----------------------------------------------------------------------------
(* React renders: App mounts or unmounts Login (whose useAuthProfile is the
   only subscriber of the probe) and the effect on the token runs *)

Rerender ==
    /\ shown # phase \/ eff # tok
    /\ shown' = phase /\ eff' = tok
    /\ IF tok = 0 /\ eff # 0 /\ ~Busy("status")
       THEN req' = [req EXCEPT !["status"] = [NoReq EXCEPT !.at = "sent", !.tok = stored]]
       ELSE UNCHANGED req
    /\ \/ /\ LoginMounted(shown) /\ ~LoginMounted(phase) /\ probe
          /\ probe' = FALSE /\ stale' = stale + 1
          /\ waiter' = IF waiter = "live" THEN "stale" ELSE waiter
       \/ /\ ~LoginMounted(shown) /\ LoginMounted(phase) /\ cache # "ok"
          /\ probe' = TRUE /\ UNCHANGED <<stale, waiter>>
       \/ /\ ~(LoginMounted(shown) /\ ~LoginMounted(phase) /\ probe)
          /\ ~(~LoginMounted(shown) /\ LoginMounted(phase) /\ cache # "ok")
          /\ UNCHANGED <<probe, stale, waiter>>
    /\ UNCHANGED <<clientVars, cache, held, serverVars, faults, calls, raced>>

-----------------------------------------------------------------------------
ClientStep ==
    \/ \E k \in {"status", "refresh"} : StatusAnswered(k)
    \/ \E k \in {"api", "reauth", "logout"} : ShellAnswered(k)
    \/ LoginAnswered \/ SetPasswordAnswered \/ PasskeyLoginAnswered \/ EnrollAnswered
    \/ ProfileAnswered \/ AbortedSettles \/ Rerender \/ CountdownEnds

UserStep ==
    \/ SubmitForm \/ RefreshStatus \/ LoginWithPasskey \/ EnrollPasskey \/ SkipEnroll
    \/ \E k \in {"api", "reauth", "logout"} : ShellCall(k)

Next ==
    \/ ClientStep \/ UserStep
    \/ \E k \in Kinds : Serve(k) \/ Fail(k)
    \/ ExternalPassword \/ \E t \in valid : Revoke(t)
    \/ OtherTabSignsIn \/ OtherTabClears

\* The server answers and React renders; nobody has to click.
Spec == Init /\ [][Next]_vars /\ WF_vars(ClientStep)
             /\ \A k \in Kinds : WF_vars(Serve(k))

-----------------------------------------------------------------------------
(* Properties *)

TypeOK ==
    /\ {stored, tok, eff, issued} \subseteq 0..MaxTokens /\ valid \subseteq 1..MaxTokens
    /\ {phase, shown} \subseteq {"loading", "setup", "unauthed", "authed-pending-enroll", "authed"}
    /\ cache \in {"none", "ok", "failed"} /\ waiter \in {"none", "live", "stale"}
    /\ stale \in Nat /\ {probe, held, pwSet, raced, drifted} \subseteq BOOLEAN

Quiet == shown = phase /\ waiter = "none" /\ \A k \in Kinds : ~Busy(k)

\* At rest the screen agrees with the token useAuth holds: the application with
\* one, a form without.  The exceptions are the late answers raced records: a
\* status probe sent before a login and answered after it, a 409 after it, and
\* setPassword resuming after the token was dropped again.  And that token is
\* the stored one, which requests are sent with, unless the browser refused the
\* write or another tab changed the store since useAuth last read it.
ScreenAgrees ==
    Quiet =>
        /\ ~raced => ((tok # 0) <=> (phase \in {"authed", "authed-pending-enroll"}))
        /\ ~drifted => tok = stored

\* The shared profile, once known, is never unlearned: an aborted probe that
\* settles late does not overwrite the answer of the one that replaced it.
ProfileSticks == [][cache = "ok" => cache' = "ok"]_vars

=============================================================================
