------------------------------- MODULE AppSec -------------------------------
(***************************************************************************)
(* Application security (appsec/): its start, all of it or none, what it   *)
(* announces through remote configuration (appsec/remote_config/), the     *)
(* polls of that client, and what its SDK, the login events of passport    *)
(* and the requests put on the root spans.                                 *)
(*                                                                         *)
(* There is no WAF in this port: what a request sends to it is logged and  *)
(* dropped.  And a poll's answer is never applied: fromBase64JSON takes    *)
(* the digits of the encoded bytes for the text, and throws or yields a    *)
(* number without signed.  So nothing of what listens to it is called.     *)
(***************************************************************************)
EXTENDS Integers, Sequences, FiniteSets

CONSTANTS
    SecurityConfigs, \* [rules, enabled, tracking, client, custom] of this process
    Roots,           \* requests, each with its root span
    Users,           \* user ids: [id, uuid]
    MaxCalls,        \* bound: calls of the SDK and events
    MaxPolls         \* bound: polls

VARIABLES
    security,     \* the configuration, one of SecurityConfigs
    appsecOn,     \* isEnabled
    blocking,     \* blockingConfiguration: "none" (undefined), "empty" or "set"
    capabilities, \* the capabilities that the client announces
    listeners,    \* the events that have a listener: the client's products
    timer,        \* the scheduler's timer: "none", "armed" or "fired"
    inFlight,     \* requests of polls without an answer
    polls,        \* polls so far
    hasError,     \* client.state.has_error
    tags,         \* the tags of each root span that the SDK and passport set
    named,        \* per root: the user that the application named last
    calls         \* calls of the SDK and events so far

clientVars == <<listeners, timer, inFlight, polls, hasError>>
spanVars == <<tags, named, calls>>
appsecVars == <<security, appsecOn, blocking, capabilities, clientVars, spanVars>>

\* The user of a tag that names none.
NoUser == "no user"

-----------------------------------------------------------------------------
(* The remote configuration client: remote_config/.                        *)

HasClient == security.client

WafCapabilities == {"ip_blocking", "user_blocking", "dd_rules", "exclusions",
                    "request_blocking", "custom_rules", "custom_blocking_response"}
WafProducts == {"ASM_DATA", "ASM_DD", "ASM"}

\* A variant of StartScheduler: start arms a timer whether or not there is one.
StartSchedulerAgain == "armed"

\* Scheduler.start: nothing if it has a timer, even one that has fired.
StartScheduler == IF timer = "none" THEN "armed" ELSE timer

\* on, for several events: the products follow, and the polls start.
ListenTo(events) ==
    /\ listeners' = listeners \cup events
    /\ timer' = IF listeners' # {} THEN StartScheduler ELSE timer

\* off: without products the polls stop.
IgnoreAll(events) ==
    /\ listeners' = listeners \ events
    /\ timer' = IF listeners' = {} THEN "none" ELSE timer

\* remoteConfig.enable: the client listens for ASM_FEATURES where the
\* configuration says nothing of appsec, and for APM_TRACING in any case.
EnableClient ==
    /\ HasClient
    /\ listeners = {}
    /\ listeners' = {"APM_TRACING"} \cup
         (IF security.enabled = "unset" THEN {"ASM_FEATURES"} ELSE {})
    /\ timer' = StartScheduler
    /\ capabilities' = IF security.enabled = "unset" THEN {"asm_activation"} ELSE {}
    /\ UNCHANGED <<security, appsecOn, blocking, inFlight, polls, hasError, spanVars>>

\* runAfterDelay's timer fires: poll sends a request.
Poll ==
    /\ timer = "armed"
    /\ polls < MaxPolls
    /\ timer' = "fired"
    /\ inFlight' = inFlight + 1
    /\ polls' = polls + 1
    /\ UNCHANGED <<security, appsecOn, blocking, capabilities, listeners, hasError, spanVars>>

\* parseConfig: an answer without targets changes nothing, as nothing has been
\* applied; one with targets throws in fromBase64JSON or at targets.signed.
ParseThrows(answer) == answer = "targets"

\* poll's callback, with its cb: a 404 and a failure leave the error to be
\* told; another answer clears it, and may raise it again.
PollAnswered(answer) ==
    /\ inFlight > 0
    /\ inFlight' = inFlight - 1
    /\ hasError' = CASE answer \in {"404", "failed"} -> hasError
                     [] answer \in {"empty", "untargeted"} -> FALSE
                     [] answer = "targets" -> ParseThrows(answer)
    /\ timer' = "armed"
    /\ UNCHANGED <<security, appsecOn, blocking, capabilities, listeners, polls, spanVars>>

-----------------------------------------------------------------------------
(* index.ts, rule_manager.ts and blocking.ts.                              *)

SecurityInit ==
    /\ security \in SecurityConfigs
    /\ appsecOn = FALSE
    /\ blocking = "empty"
    /\ capabilities = {}
    /\ listeners = {}
    /\ timer = "none"
    /\ inFlight = 0
    /\ polls = 0
    /\ hasError = FALSE
    /\ tags = [r \in Roots |-> {}]
    /\ named = [r \in Roots |-> NoUser]
    /\ calls = 0

\* applyRules: the action "block" of the rules, if they name actions at all;
\* rules that could not be read make it throw.
AppliedRules ==
    CASE security.rules = "plain" -> blocking
      [] security.rules = "without block" -> "none"
      [] security.rules = "block" -> "set"

\* enableWafUpdate: not with rules of the user's own.
AnnounceWaf ==
    IF HasClient /\ ~security.custom
    THEN /\ capabilities' = capabilities \cup WafCapabilities
         /\ ListenTo(WafProducts \cup {"kPreUpdate"})
    ELSE UNCHANGED <<capabilities, listeners, timer>>

\* disableWafUpdate.
WithdrawWaf ==
    IF HasClient
    THEN /\ capabilities' = capabilities \ WafCapabilities
         /\ IgnoreAll(WafProducts \cup {"kPreUpdate"})
    ELSE UNCHANGED <<capabilities, listeners, timer>>

\* enable, by ProxyTracer.init, after the client's start.
EnableAppsec ==
    /\ security.enabled = "true"
    /\ ~appsecOn
    /\ security.rules # "unreadable"
    /\ HasClient => listeners # {}
    /\ appsecOn' = TRUE
    /\ blocking' = AppliedRules
    /\ AnnounceWaf
    /\ UNCHANGED <<security, inFlight, polls, hasError, spanVars>>

\* enable where the rules cannot be read: it throws before it has announced
\* anything, and disable clears the rules and withdraws everything.
EnableFails ==
    /\ security.enabled = "true"
    /\ ~appsecOn
    /\ security.rules = "unreadable"
    /\ HasClient => listeners # {}
    /\ blocking # "none"
    /\ blocking' = "none"
    /\ WithdrawWaf
    /\ UNCHANGED <<security, appsecOn, inFlight, polls, hasError, spanVars>>

-----------------------------------------------------------------------------
(* sdk/ and passport.ts.                                                   *)

Tag(kind, event, user) == [kind |-> kind, event |-> event, user |-> user]

\* setUserTags: the tag usr.id is the last user's.
WithUser(root, id) == {t \in tags[root] : t.kind # "usr"} \cup {Tag("usr", "", id)}

\* trackEvent: the mark of the event and of who set it.
Tracked(set, event, mode) ==
    set \cup {Tag("track", event, NoUser), Tag(mode, event, NoUser)}

\* The user of the failed login, which trackEvent sets as a field of it.
Failed(set, event, id) == {t \in set : t.kind # "fields"} \cup {Tag("fields", event, id)}

Counted == calls < MaxCalls /\ calls' = calls + 1

\* trackUserLoginSuccessEvent, under the root's span.
TrackLogin(root, user) ==
    /\ Counted
    /\ tags' = [tags EXCEPT ![root] = Tracked(WithUser(root, user.id), "users.login.success", "sdk")]
    /\ named' = [named EXCEPT ![root] = user.id]
    /\ UNCHANGED <<security, appsecOn, blocking, capabilities, clientVars>>

\* trackUserLoginFailureEvent.
TrackFailure(root, user) ==
    /\ Counted
    /\ tags' = [tags EXCEPT ![root] =
         Tracked(Failed(@, "users.login.failure", user.id), "users.login.failure", "sdk")]
    /\ UNCHANGED <<security, appsecOn, blocking, capabilities, clientVars, named>>

\* trackCustomEvent.
TrackCustom(root, event) ==
    /\ Counted
    /\ tags' = [tags EXCEPT ![root] = Tracked(@, event, "sdk")]
    /\ UNCHANGED <<security, appsecOn, blocking, capabilities, clientVars, named>>

\* setUser.
SetUser(root, user) ==
    /\ Counted
    /\ tags' = [tags EXCEPT ![root] = WithUser(root, user.id)]
    /\ named' = [named EXCEPT ![root] = user.id]
    /\ UNCHANGED <<security, appsecOn, blocking, capabilities, clientVars>>

\* checkUserAndSetUser: it links the user if none is linked.  isUserBlocked
\* itself says nothing.
CheckUser(root, user) ==
    /\ Counted
    /\ IF \E t \in tags[root] : t.kind = "usr"
       THEN UNCHANGED <<tags, named>>
       ELSE /\ tags' = [tags EXCEPT ![root] = WithUser(root, user.id)]
            /\ named' = [named EXCEPT ![root] = user.id]
    /\ UNCHANGED <<security, appsecOn, blocking, capabilities, clientVars>>

\* isSdkCalled: a tag _dd.appsec.events.users.*.sdk.
SdkCalled(root) ==
    \E t \in tags[root] :
        t.kind = "sdk"
        /\ t.event \in {"users.login.success", "users.login.failure", "users.signup"}

\* parseUser: in safe mode only an id that is a UUID is kept.
ParsedId(user) == IF security.tracking = "safe" /\ ~user.uuid THEN "" ELSE user.id

\* A variant of PassportTracks: what the SDK said is not looked for.
PassportTracksAnyway(root, user, succeeded) ==
    tags' = [tags EXCEPT ![root] =
        IF succeeded
        THEN Tracked(WithUser(root, ParsedId(user)), "users.login.success", security.tracking)
        ELSE Tracked(Failed(@, "users.login.failure", ParsedId(user)),
                     "users.login.failure", security.tracking)]

\* passportTrackEvent: nothing after a login event of the SDK; else the user
\* and a success, or a failure with the user as its field.
PassportTracks(root, user, succeeded) ==
    tags' = [tags EXCEPT ![root] =
        IF SdkCalled(root) THEN @
        ELSE IF succeeded
        THEN Tracked(WithUser(root, ParsedId(user)), "users.login.success", security.tracking)
        ELSE Tracked(Failed(@, "users.login.failure", ParsedId(user)),
                     "users.login.failure", security.tracking)]

\* onPassportVerify, which listens when the events are tracked.
PassportVerify(root, user, succeeded) ==
    /\ appsecOn
    /\ security.tracking \in {"safe", "extended"}
    /\ Counted
    /\ PassportTracks(root, user, succeeded)
    /\ UNCHANGED <<security, appsecOn, blocking, capabilities, clientVars, named>>

\* blockRequest: without the parameters of a blocking action it throws before
\* it has set a tag.
BlockRequest(root) ==
    /\ Counted
    /\ tags' = IF blocking = "set"
               THEN [tags EXCEPT ![root] = @ \cup {Tag("blocked", "", NoUser)}]
               ELSE tags
    /\ UNCHANGED <<security, appsecOn, blocking, capabilities, clientVars, named>>

\* incomingHttpStartTranslator: the root span is marked.
RequestStarts(root) ==
    /\ appsecOn
    /\ Tag("appsec", "", NoUser) \notin tags[root]
    /\ tags' = [tags EXCEPT ![root] = @ \cup {Tag("appsec", "", NoUser)}]
    /\ UNCHANGED <<security, appsecOn, blocking, capabilities, clientVars, named, calls>>

UserCalls(root, user) ==
    \/ TrackLogin(root, user) \/ TrackFailure(root, user)
    \/ SetUser(root, user) \/ CheckUser(root, user)
    \/ \E succeeded \in BOOLEAN : PassportVerify(root, user, succeeded)

AppsecNext ==
    \/ EnableClient \/ EnableAppsec \/ EnableFails
    \/ Poll \/ \E answer \in {"404", "failed", "empty", "untargeted", "targets"} : PollAnswered(answer)
    \/ \E root \in Roots : RequestStarts(root) \/ BlockRequest(root)
    \/ \E root \in Roots, event \in {"users.signup", "purchase"} : TrackCustom(root, event)
    \/ \E root \in Roots, user \in Users : UserCalls(root, user)

AppsecSpec == SecurityInit /\ [][AppsecNext]_appsecVars

-----------------------------------------------------------------------------
(* Properties.                                                             *)

\* There is one chain of polls: a timer, or a request that will set one, and
\* never both or two, whatever subscribes to the client meanwhile and whatever
\* becomes of the requests (Scheduler.start, runAfterDelay).
OnePollChain ==
    inFlight + (IF timer = "armed" THEN 1 ELSE 0) = (IF listeners # {} THEN 1 ELSE 0)

\* The client announces what the WAF can be told exactly while application
\* security is on with the rules it was shipped with, capabilities and
\* products alike (enableWafUpdate, disableWafUpdate in enable and disable).
WafAnnounced ==
    LET announces == appsecOn /\ HasClient /\ ~security.custom
    IN  /\ (WafCapabilities \cap capabilities # {}) = announces
        /\ (WafCapabilities \subseteq capabilities) = announces
        /\ (WafProducts \subseteq listeners) = announces
        /\ ~announces => WafProducts \cap listeners = {}

\* The client of remote configuration polls in one chain, and announces what
\* the WAF can be told as application security is switched.
RemoteConfigKept == OnePollChain /\ WafAnnounced

\* Once the application has reported a login through the SDK, the user of the
\* root span is the one it named last, whoever passport has seen before and sees
\* after, in its own mode, and whoever is checked for being blocked meanwhile
\* (isSdkCalled, setUserTags, checkUserAndSetUser).
UserIsNamed ==
    \A root \in Roots :
        Tag("sdk", "users.login.success", NoUser) \in tags[root] =>
            {t.user : t \in {u \in tags[root] : u.kind = "usr"}} = {named[root]}
=============================================================================
