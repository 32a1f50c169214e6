------------------------------- MODULE SignIn -------------------------------
(***************************************************************************)
(* Signing in and out in one browser tab: AuthProvider's user next to the  *)
(* httpOnly cookie that it cannot read, the forms that answer with a user, *)
(* and the Turnstile tokens they send, each good for one request.          *)
(*                                                                         *)
(* The cookie follows the answers of sign-ins and logouts; the user follows*)
(* those answers and that of GET /auth/profile, sent once when the page    *)
(* loads and never cancelled.  The cookie also lapses on its own, and the  *)
(* other tabs of the browser write it; nothing of that reaches the user.   *)
(***************************************************************************)
EXTENDS Naturals, FiniteSets

CONSTANTS
  Visitors,      \* users who sign in with this browser
  FormRequests,  \* requests of the forms: the bound on what the visitor does
  MaxTokens      \* bound on challenges solved

VARIABLES
  user, cookie,  \* who is shown, and whose session the browser holds, or Nobody
  getProfile,    \* the GET /auth/profile sent on mount
  leaving,       \* where logout is
  page,          \* the form on display
  captcha,       \* captcha[f]: the token the form holds, 0 if none
  solved,        \* tokens Turnstile handed out
  spent,         \* tokens siteverify has seen
  request,       \* request[r]: a form's request
  apart,         \* history: user and cookie were last written by answers that
                 \* crossed each other; or since then a profile or logout failed,
                 \* or the cookie lapsed or another tab wrote it
  sent, twice,   \* history: tokens sent, and sent more than once
  kept           \* history: tokens PhoneOtpForm still held after it had sent them

signInVars == <<user, cookie, getProfile, leaving, page, captcha, solved, spent, request,
                apart, sent, twice, kept>>

Nobody == "none"

ASSUME SignInAssumption == Nobody \notin Visitors /\ MaxTokens \in Nat

\* LoginForm is shown as login or register; PhoneOtpForm, in its place, asks for
\* the phone number and then for the code.
LoginPages == {"login", "register", "phone", "code"}
Pages == LoginPages \cup {"forgot", "elsewhere"}

\* The widget and token on a page: login and register have one in common.
Forms == {"email", "phone", "forgot"}
FormOf == [p \in {"login", "register", "phone", "forgot"} |->
            IF p \in {"login", "register"} THEN "email" ELSE p]

\* Requests that carry a token, and those that do not.
Guarded == {"login", "register", "otp", "forgot"}
Kinds == Guarded \cup {"verify", "google"}

Unused == [at |-> "unused", kind |-> Nobody, user |-> Nobody, token |-> 0, mounted |-> FALSE]

SignInTypeOK ==
  /\ user \in Visitors \cup {Nobody} /\ cookie \in Visitors \cup {Nobody}
  /\ getProfile \in [at: {"none", "sent", "answered"}, user: Visitors \cup {Nobody}, failed: BOOLEAN]
  /\ leaving \in {"none", "backend", "local"}
  /\ page \in Pages
  /\ captcha \in [Forms -> 0..MaxTokens] /\ solved \in 0..MaxTokens
  /\ UNION {spent, sent, twice, kept} \subseteq 1..MaxTokens
  /\ request \in [FormRequests ->
       [at: {"unused", "sent", "ok", "failed", "waiting", "done"},
        kind: Kinds \cup {Nobody}, user: Visitors \cup {Nobody}, token: 0..MaxTokens,
        mounted: BOOLEAN]]
  /\ apart \in BOOLEAN

\* The page has loaded, with or without a session in the cookie.
SignInInit ==
  /\ user = Nobody /\ cookie \in Visitors \cup {Nobody}
  /\ getProfile = [at |-> "sent", user |-> cookie, failed |-> FALSE]
  /\ leaving = "none"
  /\ page = "elsewhere"
  /\ captcha = [f \in Forms |-> 0] /\ solved = 0 /\ spent = {}
  /\ request = [r \in FormRequests |-> Unused]
  /\ apart = FALSE /\ sent = {} /\ twice = {} /\ kept = {}

-----------------------------------------------------------------------------
(* AuthProvider.                                                           *)

\* The answer is about the cookie the request took along; 401 is a failure.
ProfileAnswered ==
  /\ getProfile.at = "sent"
  /\ \E failed \in BOOLEAN : getProfile' = [getProfile EXCEPT !.at = "answered", !.failed = failed]
  /\ UNCHANGED <<user, cookie, leaving, page, captcha, solved, spent, request, apart,
                 sent, twice, kept>>

\* setUser(profileUser), or setUser(null).
Refreshed ==
  /\ getProfile.at = "answered"
  /\ user' = IF getProfile.failed THEN Nobody ELSE getProfile.user
  /\ apart' = (apart \/ getProfile.failed)
  /\ getProfile' = [at |-> "none", user |-> Nobody, failed |-> FALSE]
  /\ UNCHANGED <<cookie, leaving, page, captcha, solved, spent, request, sent, twice, kept>>

\* "Log out", shown to a user.
Logout ==
  /\ user # Nobody /\ page = "elsewhere" /\ leaving = "none"
  /\ leaving' = "backend"
  /\ UNCHANGED <<user, cookie, getProfile, page, captcha, solved, spent, request, apart,
                 sent, twice, kept>>

\* The backend's answer drops the cookie; a 401, or no answer, does not.
BackendLogout ==
  /\ leaving = "backend"
  /\ cookie' \in {cookie, Nobody}
  /\ leaving' = "local"
  /\ apart' = (apart \/ getProfile.at # "none")
  /\ UNCHANGED <<user, getProfile, page, captcha, solved, spent, request, sent, twice, kept>>

\* This app's own /api/logout; then setUser(null).
LocalLogout ==
  /\ leaving = "local"
  /\ cookie' = Nobody /\ user' = Nobody
  /\ leaving' = "none"
  /\ apart' = (getProfile.at # "none")
  /\ UNCHANGED <<getProfile, page, captcha, solved, spent, request, sent, twice, kept>>

\* fetch throws, and so does logout.
LogoutFails ==
  /\ leaving = "local"
  /\ leaving' = "none"
  /\ apart' = TRUE
  /\ UNCHANGED <<user, cookie, getProfile, page, captcha, solved, spent, request,
                 sent, twice, kept>>

\* The cookie's maxAge, the session's expires_in, is over; or another tab signs
\* somebody in or out.  Nothing tells this tab's AuthProvider.
CookieChanges ==
  /\ cookie' \in (Visitors \cup {Nobody}) \ {cookie}
  /\ apart' = TRUE
  /\ UNCHANGED <<user, getProfile, leaving, page, captcha, solved, spent, request,
                 sent, twice, kept>>

-----------------------------------------------------------------------------
(* Pages and Turnstile's widget.                                           *)

\* isSubmitting, sending and redirecting: a request of a form still on display.
Pending(kinds) ==
  \E r \in FormRequests : request[r].kind \in kinds /\ request[r].at # "done" /\ request[r].mounted

\* A form that is taken off the page loses its token, and the rest of what its
\* requests would do to it.
Unmount(forms, kinds) ==
  /\ captcha' = [f \in Forms |-> IF f \in forms THEN 0 ELSE captcha[f]]
  /\ request' = [r \in FormRequests |->
       IF request[r].kind \in kinds THEN [request[r] EXCEPT !.mounted = FALSE] ELSE request[r]]

\* Links, and the browser's Back and Forward, which the overlay does not cover.
Navigate ==
  /\ \E to \in {"login", "forgot", "elsewhere"} \ {page} :
       /\ page \in LoginPages => to # "login"
       /\ page' = to
       /\ Unmount(Forms, Kinds)
  /\ UNCHANGED <<user, cookie, getProfile, leaving, solved, spent, apart, sent, twice, kept>>

\* resetCaptcha and setMode.
SetMode ==
  /\ page \in {"login", "register"} /\ ~Pending({"login", "register"})
  /\ page' = IF page = "login" THEN "register" ELSE "login"
  /\ captcha' = [captcha EXCEPT !["email"] = 0]
  /\ UNCHANGED <<user, cookie, getProfile, leaving, solved, spent, request, apart,
                 sent, twice, kept>>

\* "Use phone number instead", and back: captchaToken of LoginForm stays.
SetMethod ==
  /\ page \in LoginPages /\ ~Pending({"login", "register"})
  /\ IF page \in {"phone", "code"} THEN page' \in {"login", "register"} ELSE page' = "phone"
  /\ Unmount({"phone"}, {"otp", "verify"})
  /\ UNCHANGED <<user, cookie, getProfile, leaving, solved, spent, apart, sent, twice, kept>>

\* "Use a different number" leaves captchaToken as it is.
DifferentNumber ==
  /\ page = "code"
  /\ page' = "phone"
  /\ kept' = kept \cup ({captcha["phone"]} \cap sent)
  /\ UNCHANGED <<user, cookie, getProfile, leaving, captcha, solved, spent, request, apart,
                 sent, twice>>

\* onVerify, after the widget is rendered or reset; and onExpire.
Verified ==
  /\ page \in DOMAIN FormOf /\ solved < MaxTokens
  /\ solved' = solved + 1
  /\ captcha' = [captcha EXCEPT ![FormOf[page]] = solved + 1]
  /\ UNCHANGED <<user, cookie, getProfile, leaving, page, spent, request, apart,
                 sent, twice, kept>>

Expired ==
  /\ page \in DOMAIN FormOf /\ captcha[FormOf[page]] # 0
  /\ captcha' = [captcha EXCEPT ![FormOf[page]] = 0]
  /\ UNCHANGED <<user, cookie, getProfile, leaving, page, solved, spent, request, apart,
                 sent, twice, kept>>

MutReset(f) == UNCHANGED captcha

\* resetCaptcha.
Reset(f) == captcha' = [captcha EXCEPT ![f] = 0]

-----------------------------------------------------------------------------
(* The forms' requests.                                                    *)

Send(r, kind, u, token) ==
  /\ request' = [request EXCEPT ![r] =
       [at |-> "sent", kind |-> kind, user |-> u, token |-> token, mounted |-> TRUE]]
  /\ sent' = sent \cup ({token} \ {0})
  /\ twice' = twice \cup ({token} \cap sent)

\* onLogin, onRegister, handleSendCode and forgotPassword's onSubmit.
Submit(r) ==
  \E kind \in Guarded :
    /\ page = IF kind = "otp" THEN "phone" ELSE kind
    /\ request[r].at = "unused" /\ captcha[FormOf[page]] # 0
    /\ ~Pending(IF FormOf[page] = "email" THEN {"login", "register"} ELSE {kind})
    /\ \E u \in Visitors : Send(r, kind, u, captcha[FormOf[page]])
    /\ UNCHANGED <<user, cookie, getProfile, leaving, page, captcha, solved, spent, apart, kept>>

\* handleVerifyCode, and Google's callback.
SubmitUnguarded(r) ==
  /\ request[r].at = "unused"
  /\ \E kind \in {"verify", "google"} :
       /\ IF kind = "verify" THEN page = "code" /\ ~Pending({kind}) ELSE page \in LoginPages
       /\ \E u \in Visitors : Send(r, kind, u, 0)
  /\ UNCHANGED <<user, cookie, getProfile, leaving, page, captcha, solved, spent, apart, kept>>

\* assertHuman, then the service: refused for the token, or for another reason,
\* or the answer does not come in REQUEST_TIMEOUT_MS.
Answered(r) ==
  /\ request[r].at = "sent"
  /\ \E at \in {"ok", "failed"} :
       /\ at = "ok" => request[r].token \notin spent
       /\ request' = [request EXCEPT ![r].at = at]
  /\ spent' = spent \cup ({request[r].token} \ {0})
  /\ UNCHANGED <<user, cookie, getProfile, leaving, page, captcha, solved, apart,
                 sent, twice, kept>>

MutAfterAuth(u) == UNCHANGED user

\* The answer brings the user in hand, setUser, and the cookie with it.
AfterAuth(u) == user' = u

\* A sign-in: afterAuth works after the form is gone, too.
SignedIn(r) ==
  /\ request[r].at = "ok" /\ request[r].kind \in {"login", "verify", "google"}
  /\ cookie' = request[r].user
  /\ AfterAuth(request[r].user)
  /\ apart' = (getProfile.at # "none" \/ leaving # "none")
  /\ page' = "elsewhere"
  /\ captcha' = [f \in Forms |-> 0]
  /\ request' = [q \in FormRequests |->
       IF q = r THEN [Unused EXCEPT !.at = "done"] ELSE [request[q] EXCEPT !.mounted = FALSE]]
  /\ UNCHANGED <<getProfile, leaving, solved, spent, sent, twice, kept>>

Finish(r) == request' = [request EXCEPT ![r] = [Unused EXCEPT !.at = "done"]]

\* register: the token is used up, and login needs the widget's next one.
Registered(r) ==
  /\ request[r].at = "ok" /\ request[r].kind = "register"
  /\ IF request[r].mounted
       THEN Reset("email") /\ request' = [request EXCEPT ![r].at = "waiting"]
       ELSE UNCHANGED captcha /\ Finish(r)
  /\ UNCHANGED <<user, cookie, getProfile, leaving, page, solved, spent, apart,
                 sent, twice, kept>>

\* waitForNextCaptchaToken polls captchaTokenRef, and login is sent with it.
NextToken(r) ==
  /\ request[r].at = "waiting" /\ request[r].mounted /\ captcha["email"] # 0
  /\ Send(r, "login", request[r].user, captcha["email"])
  /\ UNCHANGED <<user, cookie, getProfile, leaving, page, captcha, solved, spent, apart, kept>>

\* "Automatic sign-in failed": 8 s without a token; or the form is gone and no
\* token comes.
NoToken(r) ==
  /\ request[r].at = "waiting"
  /\ IF request[r].mounted THEN Reset("email") /\ page' = "login" ELSE UNCHANGED <<captcha, page>>
  /\ Finish(r)
  /\ UNCHANGED <<user, cookie, getProfile, leaving, solved, spent, apart, sent, twice, kept>>

\* The code was sent, or a mail: the next step is shown, and the token stays.
NextStep(r) ==
  /\ request[r].at = "ok" /\ request[r].kind \in {"otp", "forgot"}
  /\ page' = IF ~request[r].mounted THEN page
             ELSE IF request[r].kind = "otp" THEN "code" ELSE "elsewhere"
  /\ Finish(r)
  /\ UNCHANGED <<user, cookie, getProfile, leaving, captcha, solved, spent, apart,
                 sent, twice, kept>>

\* The error is shown, and a form that sent a token asks for another.
Refused(r) ==
  /\ request[r].at = "failed"
  /\ IF request[r].mounted /\ request[r].kind \in Guarded
       THEN Reset(CASE request[r].kind = "otp" -> "phone"
                    [] request[r].kind = "forgot" -> "forgot"
                    [] OTHER -> "email")
       ELSE UNCHANGED captcha
  /\ Finish(r)
  /\ UNCHANGED <<user, cookie, getProfile, leaving, page, solved, spent, apart,
                 sent, twice, kept>>

SignInNext ==
  \/ ProfileAnswered \/ Refreshed
  \/ Logout \/ BackendLogout \/ LocalLogout \/ LogoutFails \/ CookieChanges
  \/ Navigate \/ SetMode \/ SetMethod \/ DifferentNumber \/ Verified \/ Expired
  \/ \E r \in FormRequests :
       \/ Submit(r) \/ SubmitUnguarded(r) \/ Answered(r) \/ SignedIn(r)
       \/ Registered(r) \/ NextToken(r) \/ NoToken(r) \/ NextStep(r) \/ Refused(r)

SignInSpec == SignInInit /\ [][SignInNext]_signInVars

-----------------------------------------------------------------------------
\* Who is shown is who the cookie signs in, once the profile and the logout have
\* been answered, although neither is cancelled by a sign-in: they differ only
\* after a profile request crossed a sign-in or a logout, or failed itself;
\* after a logout that a sign-in crossed or that could not reach /api/logout;
\* or after the cookie lapsed, or another tab wrote it, with no sign-in or logout
\* of this tab since.
UserIsTheSession ==
  getProfile.at = "none" /\ leaving = "none" /\ ~apart => user = cookie

\* "A fresh, single-use token is required per submission": no token is sent
\* twice, except by PhoneOtpForm, which offers the one it has used up again
\* after "Use a different number".
TokensAreSentOnce == twice \subseteq kept
=============================================================================
