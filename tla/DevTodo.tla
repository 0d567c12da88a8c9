------------------------------ MODULE DevTodo -------------------------------
(***************************************************************************)
(* cmd/burnmon-dev's Microsoft To Do panel and internal/todo under it: the *)
(* status loop that looks for the token on disk, the task loop, the sign-in*)
(* with a device code, and the refresh of an expired token.                *)
(***************************************************************************)
EXTENDS Naturals

CONSTANTS
    Logins,      \* bound: sign-ins started
    MaxExpiries  \* bound: tokens that expire

ASSUME TodoAssumption == MaxExpiries \in Nat

Fetchers == {"status", "tasks"} \cup Logins   \* who refreshes the tasks

VARIABLES
    token,     \* the token file: "none", "fresh", "expired", "revoked"
    signedIn,  \* todoStatusCache
    check,     \* the status loop: what it found and whether todoStatusGen
               \* has stayed as it was (current); back (ghost): a refresh has
               \* put the token back since
    login,     \* each sign-in
    fetch,     \* [Fetchers -> where its TodayTasks is]
    tasks,     \* todoTasksCache: "none", "shown", "error"
    expiries   \* tokens expired so far

todoVars == <<token, signedIn, check, login, fetch, tasks, expiries>>

NoCheck == [at |-> "idle", was |-> FALSE, found |-> FALSE, current |-> TRUE, back |-> FALSE]

TodoInit ==
    /\ token \in {"none", "fresh", "expired"}
    /\ signedIn = FALSE /\ check = NoCheck
    /\ login = [l \in Logins |-> "idle"]
    /\ fetch = [f \in Fetchers |-> "idle"]
    /\ tasks = "none" /\ expiries = 0

-----------------------------------------------------------------------------
(* The status loop.                                                        *)

CheckBegins ==
    /\ check.at = "idle" /\ fetch["status"] = "idle"
    /\ check' = [NoCheck EXCEPT !.at = "begun", !.was = signedIn]
    /\ UNCHANGED <<token, signedIn, login, fetch, tasks, expiries>>

\* todo.SignedIn, outside the lock.
CheckReads ==
    /\ check.at = "begun"
    /\ check' = [check EXCEPT !.at = "read", !.found = (token # "none")]
    /\ UNCHANGED <<token, signedIn, login, fetch, tasks, expiries>>

(* MUTANT: no generation, the last one to write wins. *)
FoundAnyway == check.found

\* A status written meanwhile is fresher than what the disk showed.
Found == IF check.current THEN check.found ELSE signedIn

CheckEnds ==
    /\ check.at = "read"
    /\ signedIn' = Found
    /\ check' = NoCheck
    /\ fetch' = [fetch EXCEPT !["status"] = IF Found /\ ~check.was THEN "asked" ELSE @]
    /\ UNCHANGED <<token, login, tasks, expiries>>

TaskTick ==
    /\ signedIn /\ fetch["tasks"] = "idle"
    /\ fetch' = [fetch EXCEPT !["tasks"] = "asked"]
    /\ UNCHANGED <<token, signedIn, check, login, tasks, expiries>>

-----------------------------------------------------------------------------
(* bdevTodoLogin: StartLogin, FinishLogin, then the status and the tasks.  *)

StartLogin(l) ==
    /\ login[l] = "idle" /\ ~signedIn
    /\ login' = [login EXCEPT ![l] = "waiting"]
    /\ UNCHANGED <<token, signedIn, check, fetch, tasks, expiries>>

\* The user approves it, and the poll that finds out saves the token.
FinishLogin(l) ==
    /\ login[l] = "waiting"
    /\ login' = [login EXCEPT ![l] = "saved"]
    /\ token' = "fresh"
    /\ UNCHANGED <<signedIn, check, fetch, tasks, expiries>>

\* Declined, timed out, or the token could not be saved.
LoginFails(l) ==
    /\ login[l] = "waiting"
    /\ login' = [login EXCEPT ![l] = "over"]
    /\ UNCHANGED <<token, signedIn, check, fetch, tasks, expiries>>

LoginShown(l) ==
    /\ login[l] = "saved"
    /\ login' = [login EXCEPT ![l] = "over"]
    /\ signedIn' = TRUE /\ check' = [check EXCEPT !.current = (check.at = "idle")]
    /\ fetch' = [fetch EXCEPT ![l] = "asked"]
    /\ UNCHANGED <<token, tasks, expiries>>

-----------------------------------------------------------------------------
(* refreshTodoTasks: TodayTasks with accessToken.                          *)

\* An hour after it was saved, which no request of 20 seconds outlasts.
Expires ==
    /\ token = "fresh" /\ expiries < MaxExpiries
    /\ \A f \in Fetchers : fetch[f] \notin {"refreshing", "refused"}
    /\ token' = "expired" /\ expiries' = expiries + 1
    /\ UNCHANGED <<signedIn, check, login, fetch, tasks>>

\* The account's owner withdraws the consent an expired token would renew.
Revoked ==
    /\ token = "expired" /\ token' = "revoked"
    /\ fetch' = [f \in Fetchers |-> IF fetch[f] = "refreshing" THEN "refused" ELSE fetch[f]]
    /\ UNCHANGED <<signedIn, check, login, tasks, expiries>>

Shows(f, what) == fetch' = [fetch EXCEPT ![f] = "idle"] /\ tasks' = what

\* A fresh token fetches the lists (or not), no token is an error, an expired
\* one is refreshed first.
AccessToken(f) ==
    /\ fetch[f] = "asked"
    /\ \/ token = "fresh" /\ \E what \in {"shown", "error"} : Shows(f, what)
       \/ token = "none" /\ Shows(f, "error")
       \/ /\ token \in {"expired", "revoked"}
          /\ fetch' = [fetch EXCEPT ![f] = IF token = "expired" THEN "refreshing" ELSE "refused"]
          /\ UNCHANGED tasks
    /\ UNCHANGED <<token, signedIn, check, login, expiries>>

Refresh(f) ==
    /\ fetch[f] = "refreshing"
    /\ \/ /\ token' = "fresh" /\ \E what \in {"shown", "error"} : Shows(f, what)
          /\ check' = [check EXCEPT !.back = @ \/ token = "none"]
       \/ UNCHANGED <<token, check>> /\ Shows(f, "error")
    /\ UNCHANGED <<signedIn, login, expiries>>

\* Any other reply, of a busy server too, is one without a token.
Withheld(f) ==
    /\ fetch[f] = "refreshing" /\ fetch' = [fetch EXCEPT ![f] = "refused"]
    /\ UNCHANGED <<token, signedIn, check, login, tasks, expiries>>

\* A reply without a token signs out (Logout), whatever is on disk by now.
Refused(f) ==
    /\ fetch[f] = "refused"
    /\ token' = "none" /\ Shows(f, "error")
    /\ UNCHANGED <<signedIn, check, login, expiries>>

TodoNext ==
    \/ CheckBegins \/ CheckReads \/ CheckEnds \/ TaskTick \/ Expires \/ Revoked
    \/ \E l \in Logins : StartLogin(l) \/ FinishLogin(l) \/ LoginFails(l) \/ LoginShown(l)
    \/ \E f \in Fetchers : AccessToken(f) \/ Refresh(f) \/ Withheld(f) \/ Refused(f)

TodoSpec == TodoInit /\ [][TodoNext]_todoVars

-----------------------------------------------------------------------------
\* The panel goes back to "sign in" only when the token is gone: a check that
\* looked before a sign-in was saved does not undo it.  (A sign-in that is
\* just about to show itself may find the panel signed out, and so may a
\* refresh whose token another refresh's Logout removed before it was saved.)
StaysSignedIn ==
    (signedIn /\ ~signedIn') =>
        (token = "none" \/ check.back \/ \E l \in Logins : login[l] = "saved")
SignInStands == [][StaysSignedIn]_todoVars

=============================================================================
