-------------------------- MODULE OperatorSessions --------------------------
(***************************************************************************)
(* Signing in to the monitoring website (web_auth.py, with the sessions    *)
(* and login requests of store.py): a login leaves a request row and a     *)
(* cookie, the identity provider's answer is verified, and a transaction   *)
(* uses up the request and makes a session, which ends by logout, by its   *)
(* expiry or by pruning.  The browsers and the provider are external.      *)
(***************************************************************************)
EXTENDS Naturals, FiniteSets

CONSTANTS
  Browsers,
  MaxLogins,   \* bound: sign-ins begun
  MaxTime,     \* bound: the clock
  LoginTime, SessionTime   \* how long a login request and a session last

\* Times are seconds since an epoch that is past.
SessionAssumption ==
  /\ {MaxLogins, MaxTime, LoginTime, SessionTime} \subseteq Nat
  /\ "nobody" \notin Browsers

Nonces == 1..MaxLogins
Answers == {"first", "again"}   \* the browser may post the provider's answer twice
Posts == Nonces \X Answers
Nobody == [browser |-> "nobody", expires |-> 0]

VARIABLES
  now,
  cookie,    \* the login cookie of each browser, 0 without one
  begun,     \* the browser that began each sign-in
  logins,    \* login_requests: when each expires, 0 without a row
  posted,     \* each post of an answer: new, checked, done or denied
  read,      \* the time at which a post looked at the clock, 0 if it was denied
  sessions,  \* rows of sessions: of each post that made one
  made,      \* posts that made a session
  acting,    \* requests of operators under way: the session each was accepted for
  ended,     \* sessions that were logged out
  due,       \* of each sign-in, when its request was to expire
  until,     \* of each post that made a session, when that was to expire
  accepted   \* when the last request for each session was accepted, 0 if none was

times == <<due, until, accepted>>

signInVars == <<now, cookie, begun, logins, posted, read, sessions, made, acting, ended, times>>

SignInInit ==
  /\ now = 1 /\ cookie = [b \in Browsers |-> 0] /\ begun = [n \in Nonces |-> "nobody"]
  /\ logins = [n \in Nonces |-> 0] /\ posted = [p \in Posts |-> "new"] /\ read = [p \in Posts |-> 0]
  /\ sessions = [p \in Posts |-> Nobody] /\ made = {} /\ acting = {} /\ ended = {}
  /\ due = [n \in Nonces |-> 0] /\ until = [p \in Posts |-> 0] /\ accepted = [p \in Posts |-> 0]

Tick ==
  /\ now < MaxTime /\ now' = now + 1
  /\ UNCHANGED <<cookie, begun, logins, posted, read, sessions, made, acting, ended, times>>

\* /auth/login: another sign-in of the browser replaces its cookie.
Login(b) ==
  \E n \in Nonces :
    /\ begun[n] = "nobody" /\ \A k \in Nonces : k < n => begun[k] # "nobody"
    /\ begun' = [begun EXCEPT ![n] = b] /\ cookie' = [cookie EXCEPT ![b] = n]
    /\ logins' = [logins EXCEPT ![n] = now + LoginTime]
    /\ due' = [due EXCEPT ![n] = now + LoginTime]
    /\ UNCHANGED <<now, posted, read, sessions, made, acting, ended, until, accepted>>

\* /auth/callback: the cookie is the answer's, and its request has not expired.
Check(p) ==
  LET n == p[1]
      good == cookie[begun[n]] = n /\ logins[n] > now
  IN  /\ posted[p] = "new" /\ begun[n] # "nobody"
      /\ p[2] = "again" => posted[<<n, "first">>] # "new"
      /\ posted' = [posted EXCEPT ![p] = IF good THEN "checked" ELSE "denied"]
      /\ read' = [read EXCEPT ![p] = IF good THEN now ELSE 0]
      /\ UNCHANGED <<now, cookie, begun, logins, sessions, made, acting, ended, times>>

\* The answer is not verified.
Deny(p) ==
  /\ posted[p] = "checked" /\ posted' = [posted EXCEPT ![p] = "denied"] /\ read' = [read EXCEPT ![p] = 0]
  /\ UNCHANGED <<now, cookie, begun, logins, sessions, made, acting, ended, times>>

\* Fault: the request was checked before.
Fault_Usable(p) == TRUE

\* finish_login deletes the request, if it is there and had not expired when it was checked.
Usable(p) == logins[p[1]] > read[p]

Finish(p) ==
  /\ posted[p] = "checked"
  /\ IF Usable(p)
     THEN /\ posted' = [posted EXCEPT ![p] = "done"]
          /\ logins' = [logins EXCEPT ![p[1]] = 0]
          /\ \E expires \in read[p] + 1 .. read[p] + SessionTime :
               /\ sessions' = [sessions EXCEPT ![p] = [browser |-> begun[p[1]], expires |-> expires]]
               /\ until' = [until EXCEPT ![p] = expires]
          /\ made' = made \cup {p}
          /\ cookie' = [cookie EXCEPT ![begun[p[1]]] = 0]
          /\ UNCHANGED read
     ELSE /\ posted' = [posted EXCEPT ![p] = "denied"] /\ read' = [read EXCEPT ![p] = 0]
          /\ UNCHANGED <<logins, sessions, made, cookie, until>>
  /\ UNCHANGED <<now, begun, acting, ended, due, accepted>>

Live(p) == sessions[p] # Nobody /\ sessions[p].expires > now

\* A request of an operator looks the session up and is served later.
Ask(p) ==
  /\ Live(p) /\ acting' = acting \cup {p} /\ accepted' = [accepted EXCEPT ![p] = now]
  /\ UNCHANGED <<now, cookie, begun, logins, posted, read, sessions, made, ended, due, until>>

Serve(p) ==
  /\ p \in acting /\ acting' = acting \ {p}
  /\ UNCHANGED <<now, cookie, begun, logins, posted, read, sessions, made, ended, times>>

Logout(p) ==
  /\ p \in acting /\ acting' = acting \ {p} /\ ended' = ended \cup {p}
  /\ sessions' = [sessions EXCEPT ![p] = Nobody]
  /\ UNCHANGED <<now, cookie, begun, logins, posted, read, made, times>>

\* Store.prune, at the end of a pass of the worker.
Prune ==
  /\ sessions' = [p \in Posts |-> IF sessions[p].expires < now THEN Nobody ELSE sessions[p]]
  /\ logins' = [n \in Nonces |-> IF logins[n] < now THEN 0 ELSE logins[n]]
  /\ UNCHANGED <<now, cookie, begun, posted, read, made, acting, ended, times>>

SignInNext ==
  \/ Tick \/ Prune
  \/ \E b \in Browsers : Login(b)
  \/ \E p \in Posts : Check(p) \/ Deny(p) \/ Finish(p) \/ Ask(p) \/ Serve(p) \/ Logout(p)

SignInSpec == SignInInit /\ [][SignInNext]_signInVars

----------------------------------------------------------------------------
(* Properties *)

\* However often an answer is posted and whenever rows expire or are pruned between its
\* check and its use, a sign-in makes one session, of the browser that began it, for an
\* answer that came before the request expired; the session lasts no longer than the time
\* counted from there, is gone for good once logged out, and no operator's request is
\* accepted for it when it has expired.
SignInsMakeOneSession ==
  /\ \A p, q \in made : p[1] = q[1] => p = q
  /\ \A p \in made : read[p] < due[p[1]] /\ until[p] <= read[p] + SessionTime
  /\ \A p \in Posts : sessions[p] # Nobody =>
       sessions[p] = [browser |-> begun[p[1]], expires |-> until[p]] /\ p \in made \ ended
  /\ \A p \in Posts : accepted[p] # 0 => p \in made /\ accepted[p] < until[p]
=============================================================================
