-------------------------------- MODULE Api ---------------------------------
(***************************************************************************)
(* The token the requests are made with (jelly/api.c): the sign-in, the    *)
(* exchange that asks once more when its token is refused, and the lock    *)
(* that is held over a sign-in so that threads refused together sign in    *)
(* once.                                                                   *)
(*                                                                         *)
(* The server keeps one token of this device: a sign-in it took revokes    *)
(* the one before, whether or not its reply arrives, and it may revoke the *)
(* token at any time.                                                      *)
(***************************************************************************)
EXTENDS Http

CONSTANTS ApiThreads,  \* the workers that make API calls
          Nobody,      \* nobody holds the lock
          MaxTokens    \* tokens the server issues

ASSUME ApiThreadsAssumption == ApiThreads \subseteq Threads

VARIABLES g_token,     \* the token in force, 0 before the first sign-in
          g_user_id,   \* whether anybody is signed in
          g_lock,      \* the thread that holds the lock over a sign-in
          call,        \* each API thread's exchange or connect
          live,        \* the token the server knows this device by, 0 for none
          issued,      \* how many it has issued
          refused      \* the tokens it has refused

apiVars == <<g_token, g_user_id, g_lock, call, live, issued, refused>>

NoCall == [pc |-> "idle", retried |-> FALSE, token |-> 0, was |-> 0]

ApiInit ==
    /\ g_token = 0 /\ g_user_id = FALSE /\ g_lock = Nobody
    /\ call = [t \in ApiThreads |-> NoCall]
    /\ live = 0 /\ issued = 0 /\ refused = {}

Over(t) == req[t].pc = "over"
Idled(t) == [req EXCEPT ![t] = NoReq]
Unlocked == g_lock = Nobody

(***************************************************************************)
(* The server.                                                             *)
(***************************************************************************)
(* A sign-in it takes: the socket carries the token its reply will hold.   *)
ServerSignsIn(t) ==
    /\ req[t].pc \in {"sent", "headers"} /\ Hears(req[t].s)
    /\ sock[req[t].s].asked = Asks("signin", 0, 0) /\ issued < MaxTokens
    /\ issued' = issued + 1 /\ live' = issued + 1
    /\ sock' = [sock EXCEPT ![req[t].s].asked.token = issued + 1]
    /\ UNCHANGED <<g_cancel, g_reading, req, canceller, g_token, g_user_id, g_lock, call, refused>>
ServerRevokes ==
    /\ live # 0
    /\ live' = 0
    /\ UNCHANGED <<g_token, g_user_id, g_lock, call, issued, refused>> /\ UNCHANGED httpVars

(* Its answer to what the socket carries; what it says to a call beyond    *)
(* taking or refusing its token is the caller's.                           *)
Statuses(a) ==
    IF a.kind = "signin" THEN (IF a.token = 0 THEN {401} ELSE {200})
    ELSE IF a.token = live /\ live # 0 THEN {200} \cup (IF a.kind = "seg" THEN {404} ELSE {}) ELSE {401}
ServerAnswers(t) ==
    /\ req[t].pc = "headers"
    /\ LET a == sock[req[t].s].asked IN
       \E st \in Statuses(a) :
          /\ HttpHeaders(t, st)
          /\ refused' = IF st = 401 /\ a.kind # "signin" THEN refused \cup {a.token} ELSE refused
    /\ UNCHANGED <<g_token, g_user_id, g_lock, call, live, issued>>

(***************************************************************************)
(* sign_in, with the lock held by its caller until the reply is read.      *)
(***************************************************************************)
SignInBegins(t) ==
    /\ g_lock' = t
    /\ req' = Begun(t, Asks("signin", 0, 0), NoSock, FALSE)

(* The reply carried a token, or the old one stays.                        *)
SignedIn(t) == req[t].rc = "OK" /\ req[t].status = 200
TokenNow(t) == IF SignedIn(t) THEN req[t].came.token ELSE g_token

(***************************************************************************)
(* exchange: the token is read under the lock; a refusal is answered once, *)
(* through jf_reauth, and everything else is the caller's.                 *)
(***************************************************************************)
Sends(t, again) ==
    /\ Unlocked
    /\ call' = [call EXCEPT ![t] = [pc |-> "sent", retried |-> again, token |-> g_token,
                                   was |-> IF again THEN @.token ELSE 0]]
    /\ req' = Begun(t, Asks("call", 0, g_token), NoSock, FALSE)
Exchange(t) ==
    /\ call[t].pc = "idle" /\ g_user_id
    /\ Sends(t, FALSE)
    /\ UNCHANGED <<g_cancel, g_reading, sock, canceller, g_token, g_user_id, g_lock, live,
                   issued, refused>>
ExchangeAgain(t) ==
    /\ call[t].pc = "again"
    /\ Sends(t, TRUE)
    /\ UNCHANGED <<g_cancel, g_reading, sock, canceller, g_token, g_user_id, g_lock, live,
                   issued, refused>>
Answered(t) ==
    /\ call[t].pc = "sent" /\ Over(t)
    /\ req' = Idled(t)
    /\ call' = [call EXCEPT ![t] = IF req[t].rc = "OK" /\ req[t].status = 401 /\ ~@.retried
                                   THEN [@ EXCEPT !.pc = "refused"] ELSE NoCall]
    /\ UNCHANGED <<g_cancel, g_reading, sock, canceller, g_token, g_user_id, g_lock, live,
                   issued, refused>>

(* A slip: whoever is refused signs in.                                    *)
InForce_Always(token) == TRUE

(* jf_reauth: is the refused token still the one in force?                 *)
InForce(token) == token = g_token

Reauth(t) ==
    /\ call[t].pc = "refused" /\ Unlocked
    /\ IF InForce(call[t].token)
       THEN /\ SignInBegins(t)
            /\ call' = [call EXCEPT ![t].pc = "signing"]
       ELSE /\ call' = [call EXCEPT ![t].pc = "again"]
            /\ UNCHANGED <<g_lock, req>>
    /\ UNCHANGED <<g_cancel, g_reading, sock, canceller, g_token, g_user_id, live, issued, refused>>
ReauthDone(t) ==
    /\ call[t].pc = "signing" /\ Over(t)
    /\ g_token' = TokenNow(t)
    /\ call' = [call EXCEPT ![t] = IF SignedIn(t) THEN [@ EXCEPT !.pc = "again"] ELSE NoCall]
    /\ g_lock' = Nobody /\ req' = Idled(t)
    /\ UNCHANGED <<g_cancel, g_reading, sock, canceller, g_user_id, live, issued, refused>>

(* jf_connect, the session's sign-in.                                      *)
Connects(t) ==
    /\ call[t].pc = "idle" /\ Unlocked
    /\ SignInBegins(t)
    /\ call' = [call EXCEPT ![t].pc = "connecting"]
    /\ UNCHANGED <<g_cancel, g_reading, sock, canceller, g_token, g_user_id, live, issued, refused>>
Connected(t) ==
    /\ call[t].pc = "connecting" /\ Over(t)
    /\ g_token' = TokenNow(t)
    /\ g_user_id' = (g_user_id \/ SignedIn(t))
    /\ call' = [call EXCEPT ![t] = NoCall]
    /\ g_lock' = Nobody /\ req' = Idled(t)
    /\ UNCHANGED <<g_cancel, g_reading, sock, canceller, live, issued, refused>>

ApiStep(t) ==
    \/ Exchange(t) \/ ExchangeAgain(t) \/ Answered(t)
    \/ Reauth(t) \/ ReauthDone(t)
    \/ Connects(t) \/ Connected(t)

(* Threads refused together sign in once: an exchange signs in only while  *)
(* the token in force is one the server refused, though another thread may *)
(* have had it replaced since; and what is asked again is asked with       *)
(* another token than the refused one.                                     *)
OneSignInPerRefusal ==
    [][\A t \in ApiThreads :
          /\ call[t].pc = "refused" /\ call'[t].pc = "signing" => g_token \in refused
          /\ call'[t].pc = "sent" /\ call'[t].retried => call'[t].token # call'[t].was]_<<call>>
=============================================================================
