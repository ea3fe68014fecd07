---------------------------- MODULE OAuthSignIn ----------------------------
(***************************************************************************)
(* Sign-in through the OAuth server (auth/oauth_server.py), which keeps no *)
(* session: what a request needs is in the signed tokens it carries and in *)
(* the cookies of the browser. Several flows share one browser, in tabs:   *)
(* flows of the single page application (`/__/oauth/start`) and flows of   *)
(* clients that registered themselves. The provider's tokens are stored    *)
(* by an OAuthTokenManager (std/oauth/v1/oauth.py), read and written in    *)
(* separate transactions. Handlers await in `exchange_code`, in `fetch`    *)
(* and `store`, and in the `authenticated` hook.                           *)
(***************************************************************************)
EXTENDS Naturals, FiniteSets

CONSTANTS
    Flow,       \* tabs in which a sign-in may be started
    FlowKind,       \* FlowKind[f]: "browser", "first_party" or "registered"
    User,
    NoUser, NoFlow,
    MaxFlows,   \* bound on the starts of flows
    MaxSignouts \* bound on sign-outs

ASSUME OAuthAssumption ==
    /\ FlowKind \in [Flow -> {"browser", "first_party", "registered"}]
    /\ NoUser \notin User /\ NoFlow \notin Flow
    /\ MaxFlows \in Nat /\ MaxSignouts \in Nat

VARIABLES
    stage,          \* what the flow does next
    who,            \* the user the flow's code, or its exchange, is for
    granted,        \* the provider's answer held a refresh token
    read,           \* what `fetch` found for the flow
    session,        \* cookie rbt_session: the user of a valid access token
    refresh_cookie, \* cookie rbt_refresh
    pending_cookie, \* cookie rbt_oauth_pending: the flow whose verifier it holds
    consent_cookie, \* cookie rbt_oauth_consent: the flow whose nonce it holds
    vault,          \* the provider's tokens stored for each user
    refreshing,     \* the user a `/refresh` under way mints for
    flowStarts, signouts,
    approved,       \* history: flows whose consent page the user approved
    proven,         \* history: users the provider identified
    constructed,    \* history: users the `authenticated` hook has run for
    signedOut,      \* history: signed out while no `/refresh` was under way, and
                    \* no flow has signed in since
    latest          \* history: the flow of the last `/start`, NoFlow when the
                    \* `/finish` of another has cleared its pending cookie

cookies == <<session, refresh_cookie, pending_cookie, consent_cookie>>
oauthHistory == <<approved, proven, constructed, signedOut, latest>>
oauthVars == <<stage, who, granted, read, cookies, vault, refreshing, flowStarts, signouts,
               oauthHistory>>

Vaulted == {"nothing", "access", "refreshable"}

----------------------------------------------------------------------------
\* Mutant: a client is trusted as soon as it has registered.
MutTrusted(f) == TRUE

\* The two kinds of client that skip the consent screen.
Trusted(f) == FlowKind[f] \in {"browser", "first_party"}

Goes(f, s) == stage' = [stage EXCEPT ![f] = s]

OAuthInit ==
    /\ stage = [f \in Flow |-> "idle"] /\ who = [f \in Flow |-> NoUser]
    /\ granted = [f \in Flow |-> FALSE] /\ read = [f \in Flow |-> "nothing"]
    /\ session = NoUser /\ refresh_cookie = NoUser
    /\ pending_cookie = NoFlow /\ consent_cookie = NoFlow
    /\ vault = [u \in User |-> "nothing"] /\ refreshing = NoUser
    /\ flowStarts = 0 /\ signouts = 0
    /\ approved = {} /\ proven = {} /\ constructed = {}
    /\ signedOut = FALSE /\ latest = NoFlow

----------------------------------------------------------------------------
(* From the first request to the identity provider *)

\* Mutant: a verifier that is still there is not replaced.
MutPendingAfter(f) ==
    IF FlowKind[f] = "browser" /\ pending_cookie = NoFlow THEN f ELSE pending_cookie

PendingAfter(f) == IF FlowKind[f] = "browser" THEN f ELSE pending_cookie

\* A flow may be started over at any time before its exchange: the user
\* abandons the tab. `/start` leaves its verifier in the pending cookie; a
\* registered client keeps its own, and comes straight to `/authorize`.
start(f) ==
    /\ stage[f] \in {"idle", "consent", "idp", "done", "failed"} /\ flowStarts < MaxFlows
    /\ flowStarts' = flowStarts + 1
    /\ Goes(f, "authorize") /\ who' = [who EXCEPT ![f] = NoUser]
    /\ approved' = approved \ {f}
    /\ pending_cookie' = PendingAfter(f)
    /\ latest' = IF FlowKind[f] = "browser" THEN f ELSE latest
    /\ UNCHANGED <<granted, read, session, refresh_cookie, consent_cookie, vault,
                   refreshing, signouts, proven, constructed, signedOut>>

\* Reuse the session of the browser, or sign in at the provider.
Identify(f) ==
    IF session # NoUser
    THEN Goes(f, "code") /\ who' = [who EXCEPT ![f] = session]
    ELSE Goes(f, "idp") /\ UNCHANGED who

authorize(f) ==
    /\ stage[f] = "authorize"
    /\ IF Trusted(f)
       THEN Identify(f) /\ UNCHANGED consent_cookie
       ELSE Goes(f, "consent") /\ consent_cookie' = f /\ UNCHANGED who
    /\ UNCHANGED <<granted, read, session, refresh_cookie, pending_cookie, vault,
                   refreshing, flowStarts, signouts, oauthHistory>>

\* The cookie holds the nonce of another page, or none, and `/consent`
\* answers 403: a second consent page was shown, or the decision was taken.
ConsentRefused(f) ==
    /\ stage[f] = "consent" /\ consent_cookie # f
    /\ Goes(f, "failed")
    /\ UNCHANGED <<who, granted, read, cookies, vault, refreshing, flowStarts, signouts,
                   oauthHistory>>

consent(f, approve) ==
    /\ stage[f] = "consent" /\ consent_cookie = f
    /\ consent_cookie' = NoFlow
    /\ IF approve THEN Identify(f) ELSE Goes(f, "failed") /\ UNCHANGED who
    /\ approved' = IF approve THEN approved \cup {f} ELSE approved
    /\ UNCHANGED <<granted, read, session, refresh_cookie, pending_cookie, vault,
                   refreshing, flowStarts, signouts, proven, constructed, signedOut,
                   latest>>

----------------------------------------------------------------------------
(* `/callback`: the exchange, the token vault, the session cookies *)

\* The provider answers with an error, or its code cannot be exchanged.
CallbackFails(f) ==
    /\ stage[f] = "idp"
    /\ Goes(f, "error")
    /\ UNCHANGED <<who, granted, read, cookies, vault, refreshing, flowStarts, signouts,
                   oauthHistory>>

\* `exchange_code` identifies the user. Providers grant a refresh token on
\* the first consent and may leave it out later.
exchange_code(f, u, refreshable) ==
    /\ stage[f] = "idp"
    /\ Goes(f, IF refreshable THEN "store" ELSE "fetch")
    /\ who' = [who EXCEPT ![f] = u]
    /\ granted' = [granted EXCEPT ![f] = refreshable]
    /\ read' = [read EXCEPT ![f] = "nothing"]
    /\ proven' = proven \cup {u}
    /\ UNCHANGED <<cookies, vault, refreshing, flowStarts, signouts, approved, constructed,
                   signedOut, latest>>

\* OAuthTokenManager.fetch, in a transaction of its own. A fetch, or its
\* decryption, that is aborted for whatever cause reads as nothing stored.
fetch(f, aborted) ==
    /\ stage[f] = "fetch"
    /\ read' = [read EXCEPT ![f] = IF aborted THEN "nothing" ELSE vault[who[f]]]
    /\ Goes(f, "store")
    /\ UNCHANGED <<who, granted, cookies, vault, refreshing, flowStarts, signouts, oauthHistory>>

\* Mutant: the tokens of this sign-in replace whatever was stored.
MutMerged(f) == IF granted[f] THEN "refreshable" ELSE "access"

\* The refresh token that was found is carried forward.
Merged(f) == IF granted[f] \/ read[f] = "refreshable" THEN "refreshable" ELSE "access"

\* OAuthTokenManager.store replaces what is stored wholesale. If it fails
\* that is logged and the sign-in goes on.
store_oauth_tokens(f, fails) ==
    /\ stage[f] = "store"
    /\ vault' = IF fails THEN vault ELSE [vault EXCEPT ![who[f]] = Merged(f)]
    /\ Goes(f, "mint")
    /\ UNCHANGED <<who, granted, read, cookies, refreshing, flowStarts, signouts, oauthHistory>>

\* The `authenticated` hook raises: 500, and no cookie is set or cleared.
HookFails(f) ==
    /\ \/ stage[f] \in {"mint", "finishing"}
       \/ stage[f] = "code" /\ FlowKind[f] # "browser"
    /\ Goes(f, "failed")
    /\ UNCHANGED <<who, granted, read, cookies, vault, refreshing, flowStarts, signouts,
                   oauthHistory>>

\* Mutant: the tokens are handed out before the hook has run.
Mut_mint_tokens_for_user(u) == UNCHANGED constructed

\* The hook has run when the tokens are handed out.
mint_tokens_for_user(u) == constructed' = constructed \cup {u}

set_session_cookies(u) ==
    /\ session' = u /\ refresh_cookie' = u
    /\ signedOut' = FALSE

\* The end of `/callback`: session cookies, and a code for the client.
callback(f) ==
    /\ stage[f] = "mint"
    /\ mint_tokens_for_user(who[f])
    /\ set_session_cookies(who[f])
    /\ Goes(f, "code")
    /\ UNCHANGED <<who, granted, read, pending_cookie, consent_cookie, vault, refreshing,
                   flowStarts, signouts, approved, proven, latest>>

----------------------------------------------------------------------------
(* From the code to the tokens *)

\* `/token`, for a client that has its own verifier. The code is a token
\* that stays valid for its lifetime, so a client may redeem it again, and
\* with the refresh token it may come back.
token(f) ==
    /\ stage[f] \in {"code", "done"} /\ FlowKind[f] # "browser"
    /\ mint_tokens_for_user(who[f])
    /\ Goes(f, "done")
    /\ UNCHANGED <<who, granted, read, cookies, vault, refreshing, flowStarts, signouts,
                   approved, proven, signedOut, latest>>

\* `/finish` checks the code against the verifier of the pending cookie that
\* came with the request, and awaits the hook.
finish(f) ==
    /\ stage[f] = "code" /\ FlowKind[f] = "browser" /\ pending_cookie = f
    /\ Goes(f, "finishing")
    /\ UNCHANGED <<who, granted, read, cookies, vault, refreshing, flowStarts, signouts,
                   oauthHistory>>

\* Its answer sets the session cookies and deletes the pending cookie, also
\* if another tab has put its verifier there meanwhile.
FinishAnswers(f) ==
    /\ stage[f] = "finishing"
    /\ mint_tokens_for_user(who[f])
    /\ set_session_cookies(who[f])
    /\ pending_cookie' = NoFlow
    /\ latest' = IF f # latest THEN NoFlow ELSE latest
    /\ Goes(f, "done")
    /\ UNCHANGED <<who, granted, read, consent_cookie, vault, refreshing, flowStarts, signouts,
                   approved, proven>>

\* `/finish` fails: the callback redirected to it with an error, or the
\* pending cookie is missing or of another flow. It is cleared either way.
FinishFails(f) ==
    /\ \/ stage[f] = "error"
       \/ stage[f] = "code" /\ FlowKind[f] = "browser" /\ pending_cookie # f
    /\ pending_cookie' = IF FlowKind[f] = "browser" THEN NoFlow ELSE pending_cookie
    /\ latest' = IF FlowKind[f] = "browser" /\ f # latest THEN NoFlow ELSE latest
    /\ Goes(f, "failed")
    /\ UNCHANGED <<who, granted, read, session, refresh_cookie, consent_cookie, vault,
                   refreshing, flowStarts, signouts, approved, proven, constructed, signedOut>>

\* The code expires before it is redeemed.
CodeExpires(f) ==
    /\ stage[f] = "code" /\ Goes(f, "failed")
    /\ pending_cookie' = IF pending_cookie = f THEN NoFlow ELSE pending_cookie
    /\ UNCHANGED <<who, granted, read, session, refresh_cookie, consent_cookie, vault,
                   refreshing, flowStarts, signouts, oauthHistory>>

----------------------------------------------------------------------------
(* The session of the browser *)

SessionExpires ==
    /\ session # NoUser /\ session' = NoUser
    /\ UNCHANGED <<stage, who, granted, read, refresh_cookie, pending_cookie, consent_cookie,
                   vault, refreshing, flowStarts, signouts, oauthHistory>>

\* `/refresh` reads its cookie, and awaits the hook. Nothing keeps a page
\* from refreshing while its session is still valid.
RefreshStarts ==
    /\ refreshing = NoUser /\ refresh_cookie # NoUser
    /\ refreshing' = refresh_cookie
    /\ UNCHANGED <<stage, who, granted, read, cookies, vault, flowStarts, signouts, oauthHistory>>

\* Its answer sets both cookies, whatever happened to them meanwhile.
RefreshAnswers ==
    /\ refreshing # NoUser
    /\ mint_tokens_for_user(refreshing)
    /\ session' = refreshing /\ refresh_cookie' = refreshing
    /\ refreshing' = NoUser
    /\ UNCHANGED <<stage, who, granted, read, pending_cookie, consent_cookie, vault, flowStarts,
                   signouts, approved, proven, signedOut, latest>>

RefreshFails ==
    /\ refreshing # NoUser /\ refreshing' = NoUser
    /\ UNCHANGED <<stage, who, granted, read, cookies, vault, flowStarts, signouts, oauthHistory>>

\* Mutant: the refresh cookie survives.
Mut_clear_session_cookies == session' = NoUser /\ UNCHANGED refresh_cookie

clear_session_cookies == session' = NoUser /\ refresh_cookie' = NoUser

\* The refresh token's lifetime ends: `/refresh` answers 401 and clears.
RefreshExpires ==
    /\ refresh_cookie # NoUser /\ session = NoUser
    /\ clear_session_cookies
    /\ UNCHANGED <<stage, who, granted, read, pending_cookie, consent_cookie, vault,
                   refreshing, flowStarts, signouts, oauthHistory>>

signout ==
    /\ signouts < MaxSignouts /\ signouts' = signouts + 1
    /\ clear_session_cookies
    /\ signedOut' = (refreshing = NoUser)
    /\ UNCHANGED <<stage, who, granted, read, pending_cookie, consent_cookie, vault,
                   refreshing, flowStarts, approved, proven, constructed, latest>>

OAuthNext ==
    \/ \E f \in Flow :
        \/ start(f) \/ authorize(f) \/ ConsentRefused(f)
        \/ \E approve \in BOOLEAN : consent(f, approve)
        \/ CallbackFails(f)
        \/ \E u \in User, refreshable \in BOOLEAN : exchange_code(f, u, refreshable)
        \/ \E aborted \in BOOLEAN : fetch(f, aborted)
        \/ \E fails \in BOOLEAN : store_oauth_tokens(f, fails)
        \/ HookFails(f) \/ callback(f)
        \/ token(f) \/ finish(f) \/ FinishAnswers(f) \/ FinishFails(f) \/ CodeExpires(f)
    \/ SessionExpires \/ RefreshStarts \/ RefreshAnswers \/ RefreshFails
    \/ RefreshExpires \/ signout

OAuthSpec == OAuthInit /\ [][OAuthNext]_oauthVars

----------------------------------------------------------------------------
OAuthTypeOK ==
    /\ stage \in [Flow -> {"idle", "authorize", "consent", "idp", "error", "fetch", "store",
                           "mint", "code", "finishing", "done", "failed"}]
    /\ who \in [Flow -> User \cup {NoUser}] /\ granted \in [Flow -> BOOLEAN]
    /\ read \in [Flow -> Vaulted] /\ vault \in [User -> Vaulted]
    /\ {session, refresh_cookie, refreshing} \subseteq User \cup {NoUser}
    /\ {pending_cookie, consent_cookie, latest} \subseteq Flow \cup {NoFlow}
    /\ flowStarts \in 0..MaxFlows /\ signouts \in 0..MaxSignouts
    /\ approved \subseteq Flow /\ proven \subseteq User /\ constructed \subseteq User
    /\ signedOut \in BOOLEAN

\* Whoever holds a token, in a cookie or as a client, was identified by the
\* provider, and the `authenticated` hook has run for that user: no token
\* is handed back "whose authenticated side effects never ran".
TokensBacked ==
    LET holders == {session, refresh_cookie} \cup {who[f] : f \in {g \in Flow : stage[g] = "done"}}
    IN holders \ {NoUser} \subseteq proven \cap constructed

\* A client that registered itself gets to the provider, to a code or to
\* tokens only in a flow whose own consent page the user approved, also
\* when the session of the browser made the provider unnecessary.
ConsentFirst ==
    \A f \in Flow :
        FlowKind[f] = "registered" /\ stage[f] \notin {"idle", "authorize", "consent", "failed"}
            => f \in approved

\* Once signed out the browser stays signed out until a flow signs it in
\* again, unless a `/refresh` was under way when it signed out.
SignedOutStays == signedOut => session = NoUser /\ refresh_cookie = NoUser

\* The flow that was started last finds its verifier when its code comes
\* back: it loses it to no start, sign-in or sign-out of another flow, save to
\* the `/finish` of another one that is answered after this one's `/start`. That
\* clears the cookie whether it fails, or succeeds with the verifier it came with.
LatestFinishes ==
    \A f \in Flow :
        FlowKind[f] = "browser" /\ stage[f] = "code" /\ f = latest
            => pending_cookie = f

\* A refresh token of the provider is lost only to a sign-in that did not get
\* one and whose `fetch` did not see it: because it was stored only after that
\* `fetch` ("separate transactions"), or because the `fetch` was aborted.
RefreshTokenKept ==
    \A u \in User : vault[u] = "refreshable" /\ vault'[u] # "refreshable" =>
        \E f \in Flow :
            /\ stage[f] = "store" /\ who[f] = u /\ ~granted[f]
            /\ read[f] # "refreshable"

\* Sign-in is sound: tokens are backed, consent comes first, signing out
\* lasts, the last flow can finish, and refresh tokens are kept.
SignInSound ==
    /\ [](TokensBacked /\ ConsentFirst /\ SignedOutStays /\ LatestFinishes)
    /\ [][RefreshTokenKept]_oauthVars
=============================================================================
