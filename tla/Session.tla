------------------------------ MODULE Session ------------------------------
(***************************************************************************)
(* How the app comes up and who is signed in: LaunchViewController, the     *)
(* two dialogs it opens (LoginView, DeleteAccountTip4), UserManager, the    *)
(* reply handling of NetManager and the calls of the game that come back    *)
(* here (CocosSwift.loginOut, setLanguageChange, getUserInfo).             *)
(*                                                                         *)
(* All of it runs on the main thread; a step is one callback, with every    *)
(* call it makes.  What interleaves are the replies of the server, the      *)
(* callbacks of the sign-in SDKs, the taps of the player and the game.      *)
(*                                                                         *)
(* An account stands for the token the server issues for it and for the     *)
(* user record it returns.  Launch controller 0 is the root controller of   *)
(* the process; 1, 2, .. are those the game has presented over itself.      *)
(***************************************************************************)
EXTENDS Naturals, FiniteSets

CONSTANTS
  Accounts,    \* accounts of the server, each with its token
  None,        \* no token, no user, no controller over the game
  MaxLaunch,   \* bound: launch controllers the game presents per process
  MaxCopies,   \* bound: equal requests, or sign-ins of a dialog, in flight
  MaxTwice,    \* bound: launches a tap begins a second chain for, per process
  BadReplies   \* the server may send what is no JSON object

ASSUME SessionAssumption ==
  /\ None \notin Accounts /\ None \notin Nat
  /\ MaxLaunch \in Nat /\ MaxCopies \in Nat \ {0} /\ MaxTwice \in Nat
  /\ BadReplies \in BOOLEAN

VARIABLES
  running,           \* the process lives (exit(0) and a failed unwrap end it)
  userToken,         \* UserDefaults: survives the process
  loginStatus,       \* UserDefaults: 1 after a guest was offered to sign in
  login,             \* UserManager.login: the user and the status
  isGameRestart,     \* UserManager: the game is owed HEADER_UPDATE_EVENT
  isChangeLanguage,  \* UserManager: the game is owed LANGUAGE_UPDATE_EVENT
  isLoadView,        \* CocosBridge: the game is the root controller
  presented,         \* launch controller over the game, or None
  made,              \* launch controllers presented in this process
  calls,             \* requests in flight
  splash,            \* LanchScreenView of each launch controller
  errors,            \* launch controllers with an ErrorView
  dialogs,           \* LoginView and DeleteAccountTip4 views on screen
  signing,           \* sign-ins the SDKs are at work on
  loading,           \* the game is loading and will call hideSplashView
  twice              \* history: launches a second chain of requests was begun for

stored == <<userToken, loginStatus>>
notices == <<isGameRestart, isChangeLanguage>>
screens == <<isLoadView, presented, made, splash, errors, loading>>
vars == <<running, stored, login, notices, screens, calls, dialogs, signing, twice>>
-----------------------------------------------------------------------------
Launches == 0..MaxLaunch
Dialog == [kind : {"closable", "forced", "delete"},
           by : Launches, launch : Launches \cup {None}]
NoDialog == [kind |-> "none", by |-> 0, launch |-> None]

\* A tap on a provider of a LoginView; the view takes further taps meanwhile.
Attempt == [dialog : Dialog, copy : 1..MaxCopies]
Attempts(d) == {[dialog |-> d, copy |-> k] : k \in 1..MaxCopies}

\* A request remembers who waits for it; userInfo also the token it carried.
Call == [api : {"translate", "deviceLogin", "userInfo", "login", "recovery"},
         by : Launches, token : Accounts \cup {None},
         dialog : Dialog \cup {NoDialog}, copy : 1..MaxCopies]

Request(api, i) == [api |-> api, by |-> i, token |-> None,
                    dialog |-> NoDialog, copy |-> 1]
UserInfo(i, t)  == [Request("userInfo", i) EXCEPT !.token = t]
OfDialog(api, d) == [Request(api, d.by) EXCEPT !.dialog = d]

Copies(c) == {[c EXCEPT !.copy = k] : k \in 1..MaxCopies}

\* The requests in flight become S and, if the bound allows it, c.
Sending(S, c) ==
  /\ Copies(c) \ S # {}
  /\ calls' = S \cup {CHOOSE d \in Copies(c) : d \notin S}
Answered(c) == calls' = calls \ {c}

\* Dialog d starts a second chain if the first is at work: for the launch that
\* opened d and the one d will report to.
Doubles(d, first) ==
  twice' = IF first THEN twice \cup ({d.by, d.launch} \cap Launches) ELSE twice
Tapped(d, first) == /\ first => Cardinality(twice) < MaxTwice
                    /\ Doubles(d, first)
SigningIn(d) == Attempts(d) \cap signing # {}
Recovering(d) == \E c \in calls : c.api = "recovery" /\ c.dialog = d

\* getCurrentVC: a launch controller, or None when it is the game's.
CurrentVC == IF isLoadView THEN presented ELSE 0
GameInFront == isLoadView /\ presented = None

Shown(i) == splash[i].up /\ ~splash[i].hidden
InView(d) == d.kind = "forced" => Shown(d.by)
Uncovered == /\ \A i \in Launches : ~Shown(i)
             /\ \A d \in dialogs : ~InView(d)
\* The loading HUD of oauthLoginUser takes every tap.
NoHud == \A c \in calls : c.api # "login"
-----------------------------------------------------------------------------
NoScreen == [up |-> FALSE, hidden |-> FALSE]

\* The splash screens when the root launch controller has loaded.
FirstSplash == [i \in Launches |-> [NoScreen EXCEPT !.up = (i = 0)]]
NotLogin == [user |-> None, status |-> "notLogin"]

Init ==
  /\ running = TRUE
  /\ userToken = None /\ loginStatus = 0 /\ login = NotLogin
  /\ isGameRestart = FALSE /\ isChangeLanguage = FALSE
  /\ isLoadView = FALSE /\ presented = None /\ made = 0
  /\ calls = {Request("translate", 0)}
  /\ splash = FirstSplash
  /\ errors = {} /\ dialogs = {} /\ signing = {}
  /\ loading = FALSE /\ twice = {}

\* The process is killed, or has ended, and the app is opened again.
Restart ==
  /\ running' = TRUE
  /\ login' = NotLogin
  /\ isGameRestart' = FALSE /\ isChangeLanguage' = FALSE
  /\ isLoadView' = FALSE /\ presented' = None /\ made' = 0
  /\ calls' = {Request("translate", 0)}
  /\ splash' = FirstSplash
  /\ errors' = {} /\ dialogs' = {} /\ signing' = {}
  /\ loading' = FALSE /\ twice' = {}
  /\ UNCHANGED stored
-----------------------------------------------------------------------------
(* LaunchViewController. *)

LoadLaunch(i) ==
  /\ splash' = [splash EXCEPT ![i] = [NoScreen EXCEPT !.up = TRUE]]
  /\ Sending(calls, Request("translate", i))

GetUserModel(c, i, t) == Sending(calls \ {c}, UserInfo(i, t))

\* Mutant: no ErrorView is added.
NoErrorView(i) ==
  /\ splash' = [splash EXCEPT ![i].hidden = TRUE]
  /\ UNCHANGED <<isLoadView, presented, made, errors, loading>>

NotNetWorkEvent(i) ==
  /\ splash' = [splash EXCEPT ![i].hidden = TRUE]
  /\ errors' = errors \cup {i}
  /\ UNCHANGED <<isLoadView, presented, made, loading>>

TranslateReply(c) ==
  /\ c.api = "translate"
  /\ IF userToken # None /\ loginStatus = 0
       THEN GetUserModel(c, c.by, userToken)
       ELSE Sending(calls \ {c}, Request("deviceLogin", c.by))
  /\ UNCHANGED <<running, stored, login, notices, screens, dialogs, signing, twice>>

\* A LoginView reports to the controller on top, whoever opened it.
Opened(kind, c) == [kind |-> kind, by |-> c.by,
                    launch |-> IF kind = "delete" THEN None ELSE CurrentVC]
Open(kind, c) ==
  /\ Answered(c)
  /\ dialogs' = dialogs \cup {Opened(kind, c)}
  /\ Doubles(Opened(kind, c), Opened(kind, c).launch \notin {c.by, None})

\* The device's account is being deleted, may stay a guest, is bound to a
\* provider, or has to sign in.
DeviceLoginReply(c) ==
  /\ c.api = "deviceLogin"
  /\ \E t \in Accounts :
       /\ userToken' = t
       /\ \/ Open("delete", c) /\ UNCHANGED loginStatus
          \/ Open("closable", c) /\ loginStatus' = 1
          \/ GetUserModel(c, c.by, t) /\ UNCHANGED <<dialogs, loginStatus, twice>>
          \/ Open("forced", c) /\ UNCHANGED loginStatus
  /\ UNCHANGED <<running, login, notices, screens, signing>>

\* ViewController.viewWillAppear: one event, the restart before the language.
ViewWillAppear ==
  /\ isGameRestart' = FALSE
  /\ isChangeLanguage' = (isChangeLanguage /\ isGameRestart)
  /\ loading' = (loading \/ isGameRestart \/ isChangeLanguage)

\* Either the game becomes the root, or the controller dismisses itself,
\* which does nothing when it is no longer presented.
OpenViewController(i) ==
  /\ splash' = [splash EXCEPT ![i].up = TRUE]
  /\ isLoadView' = TRUE
  /\ presented' = IF presented = i THEN None ELSE presented
  /\ \/ ~isLoadView /\ loading' = TRUE /\ UNCHANGED notices
     \/ isLoadView /\ presented = i /\ ViewWillAppear
     \/ isLoadView /\ presented # i /\ UNCHANGED <<loading, notices>>
  /\ UNCHANGED <<made, errors>>

UserInfoReply(c) ==
  /\ c.api = "userInfo" /\ c.token # None
  /\ login' = [user |-> c.token, status |-> "login"]
  /\ Answered(c)
  /\ OpenViewController(c.by)
  /\ UNCHANGED <<running, stored, dialogs, signing, twice>>

\* A successful reply without a user is published, then unwrapped.
EmptyUserInfo(c) ==
  /\ BadReplies /\ c.api = "userInfo"
  /\ login' = [user |-> None, status |-> "login"]
  /\ running' = FALSE
  /\ Answered(c)
  /\ UNCHANGED <<stored, notices, screens, dialogs, signing, twice>>
-----------------------------------------------------------------------------
(* Replies that are not a success. *)

\* Only the requests of the launch controller report to it.
AfterFailure(c) ==
  /\ Answered(c)
  /\ IF c.api \in {"translate", "deviceLogin", "userInfo"}
       THEN NotNetWorkEvent(c.by)
       ELSE UNCHANGED screens
  /\ UNCHANGED <<running, loginStatus, notices, dialogs, signing, twice>>

Failure(c) == AfterFailure(c) /\ UNCHANGED <<userToken, login>>

LogOutLocally == /\ userToken' = None
                 /\ login' = [user |-> None, status |-> "loginOut"]

\* Code 4004.
LoginOutReply(c) == AfterFailure(c) /\ LogOutLocally

\* A reply that is no JSON object answers nobody.
Unanswered(c) ==
  /\ BadReplies
  /\ Answered(c)
  /\ UNCHANGED <<running, stored, login, notices, screens, dialogs, signing, twice>>

\* Code 4004 to a request of the rest of the app, sent before or after the
\* sign-in in progress: requests do not remember which token they carried.
OtherLoginOut ==
  /\ isLoadView
  /\ LogOutLocally
  /\ UNCHANGED <<running, loginStatus, notices, screens, calls, dialogs, signing, twice>>
-----------------------------------------------------------------------------
(* Taps of the player and the sign-in SDKs. *)

\* Mutant: the launch screen stays hidden and lets the next tap through.
RetryInView(i) ==
  /\ i \in errors /\ CurrentVC = i /\ Uncovered
  /\ Sending(calls, Request("translate", i))
  /\ UNCHANGED <<running, stored, login, notices, screens, dialogs, signing, twice>>

\* errorBtnTap: the ErrorView itself stays below the launch screen.
Retry(i) ==
  /\ i \in errors /\ CurrentVC = i /\ Uncovered
  /\ splash' = [splash EXCEPT ![i].hidden = FALSE]
  /\ Sending(calls, Request("translate", i))
  /\ UNCHANGED <<running, stored, login, notices, isLoadView, presented, made,
                 errors, loading, dialogs, signing, twice>>

\* A provider's own screens are gone before its tokens are there
\* (refreshTokensIfNeeded), and nothing in the view stops another tap.
SignIn(d) ==
  /\ d.kind # "delete" /\ InView(d) /\ NoHud
  /\ \E s \in Attempts(d) \ signing : signing' = signing \cup {s}
  /\ Tapped(d, SigningIn(d))
  /\ UNCHANGED <<running, stored, login, notices, screens, calls, dialogs>>

\* The SDK calls back, with or without credentials; the view may be gone.
SdkDone(s) ==
  /\ Sending(calls, OfDialog("login", s.dialog))
  /\ signing' = signing \ {s}
  /\ UNCHANGED <<running, stored, login, notices, screens, dialogs, twice>>
SdkFailed(s) ==
  /\ signing' = signing \ {s}
  /\ UNCHANGED <<running, stored, login, notices, screens, calls, dialogs, twice>>

\* oauthLoginUser, then LoginView.getUserInfo.
LoginReply(c) ==
  /\ c.api = "login"
  /\ dialogs' = dialogs \ {c.dialog}
  /\ \E t \in Accounts :
       /\ userToken' = t
       /\ IF c.dialog.launch # None
            THEN loginStatus' = 0 /\ GetUserModel(c, c.dialog.launch, t)
            ELSE Answered(c) /\ UNCHANGED loginStatus
  /\ UNCHANGED <<running, login, notices, screens, signing, twice>>

\* Mutant: the closed view stays on screen.
CloseWithoutRemoving(d) ==
  /\ d.kind = "closable" /\ NoHud
  /\ Sending(calls, UserInfo(d.by, userToken))
  /\ Tapped(d, SigningIn(d))
  /\ UNCHANGED <<running, stored, login, notices, screens, dialogs, signing>>

\* onCloseView, then LoginCloseEvent: the guest goes on with the device's token.
CloseLogin(d) ==
  /\ d.kind = "closable" /\ NoHud
  /\ dialogs' = dialogs \ {d}
  /\ Tapped(d, SigningIn(d))
  /\ Sending(calls, UserInfo(d.by, userToken))
  /\ UNCHANGED <<running, stored, login, notices, screens, signing>>

\* The OK button of DeleteAccountTip4 asks the server to keep the account.
\* Neither a HUD nor the button's state stops a second tap meanwhile.
Recover(d) ==
  /\ d.kind = "delete" /\ NoHud
  /\ Sending(calls, OfDialog("recovery", d))
  /\ Tapped(d, Recovering(d))
  /\ UNCHANGED <<running, stored, login, notices, screens, dialogs, signing>>
RecoveryReply(c) ==
  /\ c.api = "recovery"
  /\ dialogs' = dialogs \ {c.dialog}
  /\ GetUserModel(c, c.by, userToken)
  /\ UNCHANGED <<running, stored, login, notices, screens, signing, twice>>

\* Its close button ends the app.
CloseDelete(d) ==
  /\ d.kind = "delete" /\ NoHud
  /\ userToken' = None
  /\ running' = FALSE
  /\ UNCHANGED <<loginStatus, login, notices, screens, calls, dialogs, signing, twice>>
-----------------------------------------------------------------------------
(* The game. *)

\* Mutant: only the first launch screen is removed.
HideFirstSplash ==
  /\ loading
  /\ loading' = FALSE
  /\ splash' = IF GameInFront THEN [splash EXCEPT ![0].up = FALSE] ELSE splash
  /\ UNCHANGED <<running, stored, login, notices, isLoadView, presented, made,
                 errors, calls, dialogs, signing, twice>>

\* CocosHelper.hideSplashView does nothing unless the game is in front.
HideSplashView ==
  /\ loading
  /\ loading' = FALSE
  /\ splash' = IF GameInFront THEN [i \in Launches |-> [splash[i] EXCEPT !.up = FALSE]]
                              ELSE splash
  /\ UNCHANGED <<running, stored, login, notices, isLoadView, presented, made,
                 errors, calls, dialogs, signing, twice>>

Present ==
  /\ made < MaxLaunch
  /\ made' = made + 1 /\ presented' = made + 1
  /\ LoadLaunch(made + 1)
  /\ UNCHANGED <<running, loginStatus, isLoadView, errors, loading, dialogs, signing,
                 twice>>

\* Mutant: the current controller is not looked at.
LoginOutAnyway ==
  /\ isLoadView
  /\ LogOutLocally
  /\ isGameRestart' = TRUE
  /\ Present
  /\ UNCHANGED isChangeLanguage

\* Called from the game's own requests, at any time.
LoginOut ==
  /\ GameInFront
  /\ LogOutLocally
  /\ isGameRestart' = TRUE
  /\ Present
  /\ UNCHANGED isChangeLanguage

\* Called from a button of the game, for another language than the current one:
\* the tap needs the game on top.
SetLanguageChange ==
  /\ GameInFront /\ Uncovered
  /\ isChangeLanguage' = TRUE
  /\ Present
  /\ UNCHANGED <<userToken, login, isGameRestart>>

\* getUserInfo unwraps the user of UserManager.
GetUserInfo ==
  /\ isLoadView /\ login.user = None
  /\ running' = FALSE
  /\ UNCHANGED <<stored, login, notices, screens, calls, dialogs, signing, twice>>
-----------------------------------------------------------------------------
Reply(c) == \/ TranslateReply(c) \/ DeviceLoginReply(c) \/ UserInfoReply(c)
            \/ LoginReply(c) \/ RecoveryReply(c)
            \/ Failure(c) \/ LoginOutReply(c) \/ EmptyUserInfo(c)
Sdk(s) == SdkDone(s) \/ SdkFailed(s)
Tap(d) == SignIn(d) \/ CloseLogin(d) \/ Recover(d) \/ CloseDelete(d)
Game == HideSplashView \/ LoginOut \/ SetLanguageChange \/ GetUserInfo

Next ==
  \/ /\ running
     /\ \/ \E c \in calls : Reply(c) \/ Unanswered(c)
        \/ \E d \in dialogs : Tap(d)
        \/ \E s \in signing : Sdk(s)
        \/ \E i \in Launches : Retry(i)
        \/ OtherLoginOut
        \/ Game
  \/ Restart

Spec == Init /\ [][Next]_vars

\* The network stack answers every request of a controller, if only with a
\* timeout.  Players, SDKs and the game need not act.
AnswerTo(i) == running /\ \E c \in calls : c.by = i /\ Reply(c)
Fairness == \A i \in Launches : WF_vars(AnswerTo(i))
FairSpec == Spec /\ Fairness
-----------------------------------------------------------------------------
(* Properties. *)

\* Types of the state; the bounds of controllers and requests are kept.
TypeOK ==
  /\ running \in BOOLEAN /\ isLoadView \in BOOLEAN /\ loading \in BOOLEAN
  /\ isGameRestart \in BOOLEAN /\ isChangeLanguage \in BOOLEAN
  /\ userToken \in Accounts \cup {None} /\ loginStatus \in 0..1
  /\ login \in [user : Accounts \cup {None},
                status : {"notLogin", "login", "loginOut"}]
  /\ made \in Launches /\ presented \in (1..made) \cup {None}
  /\ calls \subseteq Call /\ errors \subseteq Launches
  /\ splash \in [Launches -> [up : BOOLEAN, hidden : BOOLEAN]]
  /\ dialogs \subseteq Dialog /\ signing \subseteq Attempt
  /\ twice \subseteq Launches

\* As long as no second chain was begun: while the game is in front, the user
\* record it may fetch and the token its requests carry are never those of two
\* accounts, whatever replies come late (UserManager.loginUser, deviceLogin).
OneAccount ==
  twice = {} /\ GameInFront /\ login.user # None /\ userToken # None
    => login.user = userToken

\* However hasty the player is, the game comes back to the front with nothing
\* left to tell it, and the two notices are never pending together, of which
\* viewWillAppear would keep one.
NoticeDelivered ==
  /\ ~(isGameRestart /\ isChangeLanguage)
  /\ GameInFront => ~isGameRestart /\ ~isChangeLanguage

\* Once the game has called hideSplashView, which removes all of several
\* LanchScreenViews, none covers the game until it loads again, except that of
\* a launch for which the player has begun a second chain (openViewController):
\* late replies of one launch uncover, cover or cancel no other launch.
SplashRemoved == GameInFront /\ ~loading => \A i \in Launches \ twice : ~Shown(i)

\* No dialog of a launch, and no sign-in it began, outlives the launch, unless
\* the player has begun a second chain for it (LoginView, DeleteAccountTip4).
NoStrayDialog ==
  GameInFront => /\ \A d \in dialogs : d.by \in twice
                 /\ \A s \in signing : s.dialog.by \in twice

\* An ErrorView, which asks for a tap to try again, can be tapped when the
\* launch waits for nothing else.
RetryInReach ==
  running /\ ~loading /\ CurrentVC \in errors
  /\ calls = {} /\ dialogs = {} /\ signing = {}
    => Uncovered

\* The launch screen of an earlier launch is still over the current one: the
\* game was logged out before it called hideSplashView.
EarlierSplash == \E i \in Launches : i # CurrentVC /\ Shown(i)
\* The player can act, or the game is in front, or the process has ended.
Settled == \/ ~running \/ GameInFront
           \/ CurrentVC \in errors /\ Uncovered
           \/ \E d \in dialogs : InView(d)
\* A launch never leaves the player with a launch screen and nothing to wait
\* for, whatever requests fail and however often the player retries, if the
\* app is not killed over and over and no earlier launch screen is left.
LaunchSettles == []<>(Settled \/ EarlierSplash) \/ []<><<Restart>>_vars
=============================================================================
