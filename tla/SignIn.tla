------------------------------- MODULE SignIn --------------------------------
(***************************************************************************)
(* Passwordless sign-in: the phone's SignInScreen and VerifyScreen         *)
(* (apps/mobile), the send hook and mail delivery of auth.instance.ts, and *)
(* the fixed-window rate limiter over Redis (apps/api).                    *)
(*                                                                         *)
(* One person's phone and somebody else behind the same address.  Codes    *)
(* and links are Better Auth's, which may take one or find it used,        *)
(* replaced or too old.                                                    *)
(***************************************************************************)
EXTENDS Integers, FiniteSets, FiniteSetsExt, Functions

CONSTANTS
  Emails,     \* inboxes
  Ip,         \* the address both ask from
  PerEmail,   \* SIGN_IN_EMAIL_PER_EMAIL
  PerIp,      \* SIGN_IN_EMAIL_PER_IP
  Window,     \* SIGN_IN_EMAIL_WINDOW_SEC, in ticks
  MaxFaults,  \* bound on mails that fail, answers lost, expiries lost and
              \* requests of somebody else, together
  Watched,    \* one of the inboxes, whose mails are counted
  None        \* nobody

ASSUME SignInAssumption ==
  /\ Ip \notin Emails \X {"signin"} /\ None \notin Emails /\ Watched \in Emails
  /\ {PerEmail, PerIp, Window} \subseteq Nat \ {0}
  /\ MaxFaults \in Nat

VARIABLES
  budget,  \* key of the limiter -> its counter and the ticks to its expiry
  ask,     \* who asks for a mail -> how far the request is
  mails,   \* age in ticks -> mails the watched inbox was sent then (history)
  phone,   \* [phase, email, mailed]; mailed: what the last request had sent (history)
  faults   \* left of MaxFaults

vars == <<budget, ask, mails, phone, faults>>

Forever  == -1   \* no expiry
Askers   == {"phone", "other"}
Channels == {"code", "link"}
Idle     == [email |-> None, channel |-> None, left |-> {}, denied |-> FALSE]

(* The keys one request is counted under: the inbox, on either channel,    *)
(* and the address.                                                        *)
KeysByChannel(email, channel) == {<<email, channel>>, Ip}
Keys(email, channel) == {<<email, "signin">>, Ip}

Subjects == Emails \X (Channels \cup {"signin"}) \cup {Ip}
Limit(s) == IF s = Ip THEN PerIp ELSE PerEmail

Unset == [count |-> 0, ttl |-> 0]

Init ==
  /\ budget = [s \in Subjects |-> Unset]
  /\ ask = [a \in Askers |-> Idle]
  /\ mails = [n \in 0..Window - 1 |-> 0]
  /\ phone \in [phase : {"form"}, email : Emails, mailed : {None}]
  /\ faults = MaxFaults
-----------------------------------------------------------------------------
(* The limiter *)

(* INCR, and EXPIRE for a new counter or one that lost its expiry.  Past   *)
(* the limit the count no longer matters, so it stays one above.           *)
ConsumedUnrepaired(s) ==
  LET c == Min({budget[s].count, Limit(s)}) + 1
  IN  [budget EXCEPT ![s] = [count |-> c, ttl |-> IF c = 1 THEN Window ELSE @.ttl]]
Consumed(s) ==
  LET c == Min({budget[s].count, Limit(s)}) + 1
  IN  [budget EXCEPT ![s] = [count |-> c,
         ttl |-> IF c = 1 \/ @.ttl = Forever THEN Window ELSE @.ttl]]

(* A counter restored from a snapshot without its expiry. *)
LoseExpiry(s) ==
  /\ faults > 0 /\ budget[s].ttl > 0
  /\ budget' = [budget EXCEPT ![s].ttl = Forever]
  /\ faults' = faults - 1
  /\ UNCHANGED <<ask, mails, phone>>

(* Minutes pass; no request takes that long.  Counters expire.             *)
Tick ==
  /\ phone.phase \notin {"sending", "verifying"}
  /\ \A a \in Askers : ask[a] = Idle
  /\ budget' = [s \in Subjects |-> IF budget[s].ttl = 1 THEN Unset
                                   ELSE IF budget[s].ttl > 1
                                   THEN [count |-> budget[s].count, ttl |-> budget[s].ttl - 1]
                                   ELSE budget[s]]
  /\ mails' = [n \in 0..Window - 1 |-> IF n = 0 THEN 0 ELSE mails[n - 1]]
  /\ UNCHANGED <<ask, phone, faults>>

-----------------------------------------------------------------------------
(* A request for a sign-in mail *)

Request(email, channel) ==
  [email |-> email, channel |-> channel, left |-> Keys(email, channel), denied |-> FALSE]

(* Both counters are asked, one command after the other, without waiting   *)
(* for an answer: a request the one denies has used up the other.          *)
Count(a) ==
  \E s \in ask[a].left :
    /\ s = Ip => ask[a].left = {Ip}
    /\ budget' = Consumed(s)
    /\ ask' = [ask EXCEPT ![a] =
                 [email |-> @.email, channel |-> @.channel, left |-> @.left \ {s},
                  denied |-> @.denied \/ Consumed(s)[s].count > Limit(s)]]
    /\ UNCHANGED <<mails, phone, faults>>

Screen(phase, mailed) == [phase |-> phase, email |-> phone.email, mailed |-> mailed]

(* What the screen makes of the answer. *)
Shown(a, ok) ==
  phone' = IF a # "phone" THEN phone
           ELSE IF ~ ok THEN Screen("form", phone.mailed)
           ELSE Screen(IF ask[a].channel = "code" THEN "code" ELSE "linkSent",
                       <<ask[a].channel, ask[a].email>>)

Counted(a)  == ask[a] # Idle /\ ask[a].left = {}
Admitted(a) == Counted(a) /\ ~ ask[a].denied

TooMany(a) ==
  /\ Counted(a) /\ ask[a].denied
  /\ Shown(a, FALSE) /\ ask' = [ask EXCEPT ![a] = Idle]
  /\ UNCHANGED <<budget, mails, faults>>

(* Better Auth makes a code or a link, and the mail goes out.              *)
Mailed(a) ==
  /\ Admitted(a)
  /\ mails' = IF ask[a].email = Watched THEN [mails EXCEPT ![0] = @ + 1] ELSE mails
  /\ ask' = [ask EXCEPT ![a] = Idle]
  /\ UNCHANGED budget

Deliver(a) == Mailed(a) /\ Shown(a, TRUE) /\ UNCHANGED faults

(* The answer is lost: the mail is on its way, the screen says it failed.  *)
AnswerLost(a) == faults > 0 /\ Mailed(a) /\ Shown(a, FALSE) /\ faults' = faults - 1

(* The provider refuses the mail or times out: a 503, by when the budgets  *)
(* are used.                                                               *)
MailFails(a) ==
  /\ Admitted(a) /\ faults > 0 /\ faults' = faults - 1
  /\ ask' = [ask EXCEPT ![a] = Idle] /\ Shown(a, FALSE)
  /\ UNCHANGED <<budget, mails>>

OtherAsks(e, channel) ==
  /\ ask["other"] = Idle /\ faults > 0 /\ faults' = faults - 1
  /\ ask' = [ask EXCEPT !["other"] = Request(e, channel)]
  /\ UNCHANGED <<budget, mails, phone>>

-----------------------------------------------------------------------------
(* The sign-in screen *)

(* The person decides for an address. *)
TypeEmailAnytime(e) ==
  /\ phone.phase # "signedIn" /\ e # phone.email
  /\ phone' = [phone EXCEPT !.email = e]
  /\ UNCHANGED <<budget, ask, mails, faults>>
TypeEmail(e) ==
  /\ phone.phase = "form" /\ e # phone.email
  /\ phone' = [phone EXCEPT !.email = e]
  /\ UNCHANGED <<budget, ask, mails, faults>>

(* sendCode, from the form or again from the code screen. *)
SendCode ==
  /\ phone.phase \in {"form", "code"}
  /\ phone' = Screen("sending", None)
  /\ ask' = [ask EXCEPT !["phone"] = Request(phone.email, "code")]
  /\ UNCHANGED <<budget, mails, faults>>

SendLink ==
  /\ phone.phase = "form"
  /\ phone' = Screen("sending", None)
  /\ ask' = [ask EXCEPT !["phone"] = Request(phone.email, "link")]
  /\ UNCHANGED <<budget, mails, faults>>

(* verifyCode ... *)
EnterCode ==
  /\ phone.phase = "code"
  /\ phone' = [phone EXCEPT !.phase = "verifying"]
  /\ UNCHANGED <<budget, ask, mails, faults>>

(* ... signs in, or the screen stays.                                      *)
Verify ==
  /\ phone.phase = "verifying"
  /\ phone' \in {[phone EXCEPT !.phase = "signedIn"], [phone EXCEPT !.phase = "code"]}
  /\ UNCHANGED <<budget, ask, mails, faults>>

(* "Use a different email", and "Back to sign-in". *)
Restart ==
  /\ phone.phase \in {"code", "linkSent", "linkFailed"}
  /\ phone' = Screen("form", None)
  /\ UNCHANGED <<budget, ask, mails, faults>>

(* A link from this mail or an older one opens VerifyScreen, whatever the  *)
(* sign-in screen shows, and verifies its token once.  Not while an answer *)
(* is out: no request takes as long as finding the mail.                   *)
FollowLink ==
  /\ phone.phase \in {"form", "code", "linkSent"}
  /\ phone' \in {[phone EXCEPT !.phase = "signedIn"], [phone EXCEPT !.phase = "linkFailed"]}
  /\ UNCHANGED <<budget, ask, mails, faults>>

SignOut ==
  /\ phone.phase = "signedIn"
  /\ phone' = Screen("form", None)
  /\ UNCHANGED <<budget, ask, mails, faults>>

Serve(a) == Count(a) \/ TooMany(a) \/ Deliver(a)

Next ==
  \/ \E s \in Subjects : LoseExpiry(s)
  \/ Tick
  \/ \E a \in Askers : Serve(a) \/ AnswerLost(a) \/ MailFails(a)
  \/ \E e \in Emails : \/ \E channel \in Channels : OtherAsks(e, channel)
                        \/ TypeEmail(e)
  \/ SendCode \/ SendLink \/ EnterCode \/ Verify \/ FollowLink \/ Restart \/ SignOut

Spec == Init /\ [][Next]_vars

(* Requests are answered; time passes, however many there are. *)
Fairness == SF_vars(Tick) /\ \A a \in Askers : WF_vars(Serve(a))

FairSpec == Spec /\ Fairness

-----------------------------------------------------------------------------
(* However the requests fall and over both channels, fewer than twice      *)
(* PerEmail mails are asked for to one inbox within any window: "the worst *)
(* case admits 2x the limit across a window boundary", and the request     *)
(* that opens a window spends one of them at its start.                    *)
MailBudget == SumFunction(mails) < 2 * PerEmail

(* The code screen's "We sent a 6-digit code to ..." and the link screen's *)
(* are true: this phone had that mail sent to the address they name.       *)
ScreenNamesInbox ==
  /\ phone.phase \in {"code", "verifying"} => phone.mailed = <<"code", phone.email>>
  /\ phone.phase = "linkSent" => phone.mailed = <<"link", phone.email>>

(* No key is refused for ever, however often it is asked for: refusals do  *)
(* not prolong the window, and a counter that lost its expiry, which       *)
(* "locks its subject out permanently", gets a new one.                    *)
LockoutEnds ==
  \A s \in Subjects :
    ([]<><<\E a \in Askers : Count(a) /\ s \in ask[a].left /\ s \notin ask'[a].left>>_vars)
      => []<>(budget[s].count =< Limit(s))
=============================================================================
