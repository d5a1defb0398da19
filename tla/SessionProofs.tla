--------------------------- MODULE SessionProofs ---------------------------
(***************************************************************************)
(* Proofs about Session, for any accounts, any number of launches and any   *)
(* player.  The argument is that a launch is a single thread: at most one   *)
(* request or one dialog of it is open, while it is the controller on top   *)
(* and its launch screen is shown, so that no retry can start a second      *)
(* thread.  Only taps that are not held up while the first is answered      *)
(* (the set twice) give a launch a second thread; the replies to the two    *)
(* come back at any time, and the invariant of every other launch has to    *)
(* survive them.                                                            *)
(***************************************************************************)
EXTENDS Session, TLAPS

-----------------------------------------------------------------------------
(* Requests. *)

\* The request sent for c differs from it in the copy number only.
Sent(c, d) == /\ d \in Call
              /\ d.api = c.api /\ d.by = c.by
              /\ d.token = c.token /\ d.dialog = c.dialog

\* A sent request is in flight, as a request of its type.
LEMMA SendingAdds ==
  ASSUME NEW S, NEW c \in Call, Sending(S, c)
  PROVE  \E d \in Call : Sent(c, d) /\ calls' = S \cup {d}
<1> DEFINE d == CHOOSE e \in Copies(c) : e \notin S
<1>1. \E e \in Copies(c) : e \notin S
  BY DEF Sending
<1>2. d \in Copies(c)
  BY <1>1
<1>3. PICK k \in 1..MaxCopies : d = [c EXCEPT !.copy = k]
  BY <1>2 DEF Copies
<1> HIDE DEF d
<1>4. d \in Call /\ Sent(c, d)
  BY <1>3 DEF Call, Sent
<1>5. calls' = S \cup {d}
  BY DEF Sending, d
<1> QED
  BY <1>4, <1>5

LEMMA RequestType ==
  ASSUME NEW api \in {"translate", "deviceLogin"}, NEW i \in Launches
  PROVE  /\ Request(api, i) \in Call
         /\ Request(api, i).api = api /\ Request(api, i).by = i
  BY SessionAssumption DEF Request, Call

LEMMA UserInfoType ==
  ASSUME NEW i \in Launches, NEW t \in Accounts \cup {None}
  PROVE  /\ UserInfo(i, t) \in Call
         /\ UserInfo(i, t).api = "userInfo" /\ UserInfo(i, t).by = i
         /\ UserInfo(i, t).token = t
  BY SessionAssumption DEF UserInfo, Request, Call

LEMMA OfDialogType ==
  ASSUME NEW api \in {"login", "recovery"}, NEW e \in Dialog
  PROVE  /\ OfDialog(api, e) \in Call
         /\ OfDialog(api, e).api = api /\ OfDialog(api, e).by = e.by
         /\ OfDialog(api, e).dialog = e
<1>1. e.by \in Launches
  BY DEF Dialog
<1> QED
  BY <1>1, SessionAssumption DEF OfDialog, Request, Call

\* What the three kinds of requests add to the requests in flight.
LEMMA SendRequest ==
  ASSUME NEW S, NEW api \in {"translate", "deviceLogin"}, NEW i \in Launches,
         Sending(S, Request(api, i))
  PROVE  \E d \in Call : /\ calls' = S \cup {d}
                         /\ d.api = api /\ d.by = i
<1>1. PICK d \in Call : Sent(Request(api, i), d) /\ calls' = S \cup {d}
  BY RequestType, SendingAdds
<1>2. d.api = api /\ d.by = i
  BY <1>1, RequestType DEF Sent
<1> QED
  BY <1>1, <1>2

LEMMA SendUserInfo ==
  ASSUME NEW S, NEW i \in Launches, NEW t \in Accounts \cup {None},
         Sending(S, UserInfo(i, t))
  PROVE  \E d \in Call : /\ calls' = S \cup {d}
                         /\ d.api = "userInfo" /\ d.by = i /\ d.token = t
<1>1. PICK d \in Call : Sent(UserInfo(i, t), d) /\ calls' = S \cup {d}
  BY UserInfoType, SendingAdds
<1>2. d.api = "userInfo" /\ d.by = i /\ d.token = t
  BY <1>1, UserInfoType DEF Sent
<1> QED
  BY <1>1, <1>2

LEMMA SendOfDialog ==
  ASSUME NEW S, NEW api \in {"login", "recovery"}, NEW e \in Dialog,
         Sending(S, OfDialog(api, e))
  PROVE  \E d \in Call : /\ calls' = S \cup {d}
                         /\ d.api = api /\ d.by = e.by /\ d.dialog = e
<1>1. PICK d \in Call : Sent(OfDialog(api, e), d) /\ calls' = S \cup {d}
  BY OfDialogType, SendingAdds
<1>2. d.api = api /\ d.by = e.by /\ d.dialog = e
  BY <1>1, OfDialogType DEF Sent
<1> QED
  BY <1>1, <1>2
\* The same, for each of the four.
LEMMA SendTranslate ==
  ASSUME NEW S, NEW i \in Launches, Sending(S, Request("translate", i))
  PROVE  \E d \in Call : /\ calls' = S \cup {d}
                         /\ d.api = "translate" /\ d.by = i
  BY SendRequest, SMT

LEMMA SendDeviceLogin ==
  ASSUME NEW S, NEW i \in Launches, Sending(S, Request("deviceLogin", i))
  PROVE  \E d \in Call : /\ calls' = S \cup {d}
                         /\ d.api = "deviceLogin" /\ d.by = i
  BY SendRequest, SMT

LEMMA SendLogin ==
  ASSUME NEW S, NEW e \in Dialog, Sending(S, OfDialog("login", e))
  PROVE  \E d \in Call : /\ calls' = S \cup {d}
                         /\ d.api = "login" /\ d.by = e.by /\ d.dialog = e
  BY SendOfDialog, SMT

LEMMA SendRecovery ==
  ASSUME NEW S, NEW e \in Dialog, Sending(S, OfDialog("recovery", e))
  PROVE  \E d \in Call : /\ calls' = S \cup {d}
                         /\ d.api = "recovery" /\ d.by = e.by /\ d.dialog = e
  BY SendOfDialog, SMT
-----------------------------------------------------------------------------
(* Type correctness, for any player. *)

Screens == [up : BOOLEAN, hidden : BOOLEAN]

LEMMA SplashSet ==
  ASSUME NEW f \in [Launches -> Screens], NEW i \in Launches, NEW b \in BOOLEAN
  PROVE  /\ [f EXCEPT ![i].up = b] \in [Launches -> Screens]
         /\ [f EXCEPT ![i].hidden = b] \in [Launches -> Screens]
         /\ [f EXCEPT ![i] = [NoScreen EXCEPT !.up = TRUE]] \in [Launches -> Screens]
         /\ [k \in Launches |-> [f[k] EXCEPT !.up = FALSE]] \in [Launches -> Screens]
<1>1. NoScreen \in Screens
  BY DEF NoScreen, Screens
<1>2. \A r \in Screens, x \in BOOLEAN :
        [r EXCEPT !.up = x] \in Screens /\ [r EXCEPT !.hidden = x] \in Screens
  BY DEF Screens
<1>3. [NoScreen EXCEPT !.up = TRUE] \in Screens
  BY <1>1, <1>2
<1>4. \A g \in [Launches -> Screens], r \in Screens :
        [g EXCEPT ![i] = r] \in [Launches -> Screens]
  OBVIOUS
<1>5. f[i] \in Screens /\ \A k \in Launches : f[k] \in Screens
  OBVIOUS
<1>6. [f EXCEPT ![i].up = b] = [f EXCEPT ![i] = [f[i] EXCEPT !.up = b]]
  OBVIOUS
<1>7. [f EXCEPT ![i].hidden = b] = [f EXCEPT ![i] = [f[i] EXCEPT !.hidden = b]]
  OBVIOUS
<1>8. [f EXCEPT ![i].up = b] \in [Launches -> Screens]
  BY <1>2, <1>4, <1>5, <1>6
<1>9. [f EXCEPT ![i].hidden = b] \in [Launches -> Screens]
  BY <1>2, <1>4, <1>5, <1>7
<1>10. [f EXCEPT ![i] = [NoScreen EXCEPT !.up = TRUE]] \in [Launches -> Screens]
  BY <1>3, <1>4
<1>11. [k \in Launches |-> [f[k] EXCEPT !.up = FALSE]] \in [Launches -> Screens]
  BY <1>2, <1>5
<1> QED
  BY <1>8, <1>9, <1>10, <1>11

LEMMA FirstSplashType == FirstSplash \in [Launches -> Screens]
<1>1. \A i \in Launches : [NoScreen EXCEPT !.up = (i = 0)] \in Screens
  BY DEF NoScreen, Screens
<1> QED
  BY <1>1 DEF FirstSplash

\* The fields of a request.
LEMMA CallFields ==
  ASSUME NEW c \in Call
  PROVE  /\ c.by \in Launches /\ c.token \in Accounts \cup {None}
         /\ c.dialog \in Dialog \/ c.dialog = NoDialog
  BY DEF Call

LEMMA DialogFields ==
  ASSUME NEW e \in Dialog
  PROVE  e.by \in Launches /\ e.launch \in Launches \cup {None}
  BY DEF Dialog

LEMMA NoDialogLaunch == NoDialog.launch = None
  BY DEF NoDialog

LEMMA CurrentType == TypeOK => CurrentVC \in Launches \cup {None}
  BY SessionAssumption DEF TypeOK, CurrentVC, Launches

LEMMA TypeInit == Init => TypeOK
<1> SUFFICES ASSUME Init PROVE TypeOK
  OBVIOUS
<1>1. Request("translate", 0) \in Call /\ 0 \in Launches
  BY RequestType, SessionAssumption DEF Launches
<1>2. splash \in [Launches -> [up : BOOLEAN, hidden : BOOLEAN]]
  BY FirstSplashType DEF Init, Screens
<1>3. login \in [user : Accounts \cup {None},
                  status : {"notLogin", "login", "loginOut"}]
  BY DEF Init, NotLogin
<1>4. made \in Launches /\ presented \in (1..made) \cup {None}
  BY <1>1 DEF Init
<1>5. calls \subseteq Call
  BY <1>1 DEF Init
<1>6. /\ running \in BOOLEAN /\ isLoadView \in BOOLEAN /\ loading \in BOOLEAN
      /\ isGameRestart \in BOOLEAN /\ isChangeLanguage \in BOOLEAN
      /\ errors \subseteq Launches /\ dialogs \subseteq Dialog
      /\ signing \subseteq Attempt /\ twice \subseteq Launches
  BY DEF Init
<1>7. userToken \in Accounts \cup {None} /\ loginStatus \in 0..1
  BY DEF Init
<1> QED
  BY <1>2, <1>3, <1>4, <1>5, <1>6, <1>7 DEF TypeOK

\* A tap or a dialog changes twice by launches only.
LEMMA DoublesType ==
  ASSUME TypeOK, NEW d, NEW first, Tapped(d, first) \/ Doubles(d, first)
  PROVE  twice' \subseteq Launches /\ twice \subseteq twice'
  BY DEF Tapped, Doubles, TypeOK

\* An answered request leaves a set of requests.
LEMMA AnsweredType ==
  ASSUME TypeOK, NEW c, Answered(c)
  PROVE  calls' \subseteq Call
  BY DEF Answered, TypeOK

LEMMA GetUserModelType ==
  ASSUME TypeOK, NEW c, NEW i \in Launches, NEW t \in Accounts \cup {None},
         GetUserModel(c, i, t)
  PROVE  calls' \subseteq Call
<1>1. PICK d \in Call : calls' = (calls \ {c}) \cup {d}
  BY SendUserInfo DEF GetUserModel
<1> QED
  BY <1>1 DEF TypeOK

LEMMA OpenType ==
  ASSUME TypeOK, NEW c \in calls, NEW kind \in {"closable", "forced", "delete"},
         Open(kind, c)
  PROVE  calls' \subseteq Call /\ dialogs' \subseteq Dialog /\ twice' \subseteq Launches
<1>0. twice' \subseteq Launches
  BY DoublesType DEF Open
<1>1. calls' \subseteq Call
  BY AnsweredType DEF Open
<1>2. c.by \in Launches /\ CurrentVC \in Launches \cup {None}
  BY CallFields, CurrentType DEF TypeOK
<1> DEFINE e == Opened(kind, c)
<1>3. e \in Dialog
  BY <1>2 DEF Dialog, Opened
<1>4. dialogs' = dialogs \cup {e}
  BY DEF Open
<1> HIDE DEF e
<1> QED
  BY <1>0, <1>1, <1>3, <1>4 DEF TypeOK

LEMMA NotNetWorkType ==
  ASSUME TypeOK, NEW i \in Launches, NotNetWorkEvent(i)
  PROVE  /\ splash' \in [Launches -> Screens] /\ errors' \subseteq Launches
         /\ isLoadView' = isLoadView /\ presented' = presented
         /\ made' = made /\ loading' = loading
  BY SplashSet DEF TypeOK, NotNetWorkEvent, Screens

LEMMA AfterFailureType ==
  ASSUME TypeOK, NEW c \in calls, AfterFailure(c)
  PROVE  /\ calls' \subseteq Call
         /\ splash' \in [Launches -> Screens] /\ errors' \subseteq Launches
         /\ isLoadView' = isLoadView /\ presented' = presented
         /\ made' = made /\ loading' = loading
         /\ UNCHANGED <<running, loginStatus, notices, dialogs, signing, twice>>
<1>1. calls' \subseteq Call
  BY AnsweredType DEF AfterFailure
<1>2. c.by \in Launches
  BY CallFields DEF TypeOK
<1>3. CASE c.api \in {"translate", "deviceLogin", "userInfo"}
  BY <1>1, <1>2, <1>3, NotNetWorkType DEF AfterFailure
<1>4. CASE c.api \notin {"translate", "deviceLogin", "userInfo"}
  BY <1>1, <1>4 DEF AfterFailure, screens, TypeOK, Screens
<1> QED
  BY <1>3, <1>4

LEMMA PresentType ==
  ASSUME TypeOK, Present
  PROVE  /\ calls' \subseteq Call /\ splash' \in [Launches -> Screens]
         /\ made' \in Launches /\ presented' \in (1..made') \cup {None}
         /\ UNCHANGED <<running, loginStatus, isLoadView, errors, loading,
                       dialogs, signing, twice>>
<1>1. made + 1 \in Launches /\ made' = made + 1 /\ presented' = made'
  BY SessionAssumption DEF TypeOK, Present, Launches
<1>2. splash' \in [Launches -> Screens]
  BY <1>1, SplashSet DEF TypeOK, Present, LoadLaunch, Screens
<1>3. PICK d \in Call : calls' = calls \cup {d}
  BY <1>1, SendTranslate DEF Present, LoadLaunch
<1> QED
  BY <1>1, <1>2, <1>3 DEF TypeOK, Present, Launches

\* Every step keeps the types.
LEMMA TypeStep ==
  ASSUME TypeOK, [Next]_vars
  PROVE  TypeOK'
<1> USE SessionAssumption
<1>1. CASE UNCHANGED vars
  BY <1>1 DEF vars, stored, notices, screens, TypeOK
<1>2. ASSUME NEW c \in calls, TranslateReply(c) PROVE TypeOK'
  <2>1. c.by \in Launches
    BY CallFields DEF TypeOK
  <2>2. calls' \subseteq Call
    <3>1. CASE userToken # None /\ loginStatus = 0
      BY <1>2, <2>1, <3>1, GetUserModelType DEF TranslateReply, TypeOK
    <3>2. CASE ~(userToken # None /\ loginStatus = 0)
      <4>1. PICK d \in Call : calls' = (calls \ {c}) \cup {d}
        BY <1>2, <2>1, <3>2, SendDeviceLogin DEF TranslateReply
      <4> QED
        BY <4>1 DEF TypeOK
    <3> QED
      BY <3>1, <3>2
  <2> QED
    BY <1>2, <2>2 DEF TranslateReply, stored, notices, screens, TypeOK
<1>3. ASSUME NEW c \in calls, DeviceLoginReply(c) PROVE TypeOK'
  <2>1. c.by \in Launches
    BY CallFields DEF TypeOK
  <2>2. PICK t \in Accounts :
          /\ userToken' = t
          /\ \/ Open("delete", c) /\ UNCHANGED loginStatus
             \/ Open("closable", c) /\ loginStatus' = 1
             \/ GetUserModel(c, c.by, t) /\ UNCHANGED <<dialogs, loginStatus, twice>>
             \/ Open("forced", c) /\ UNCHANGED loginStatus
    BY <1>3 DEF DeviceLoginReply
  <2>3. calls' \subseteq Call /\ dialogs' \subseteq Dialog /\ twice' \subseteq Launches
    <3>1. CASE GetUserModel(c, c.by, t) /\ UNCHANGED <<dialogs, loginStatus, twice>>
      BY <2>1, <3>1, GetUserModelType DEF TypeOK
    <3>2. CASE \E kind \in {"closable", "forced", "delete"} : Open(kind, c)
      BY <3>2, OpenType
    <3> QED
      BY <2>2, <3>1, <3>2
  <2>4. loginStatus' \in 0..1
    BY <2>2 DEF TypeOK
  <2> QED
    BY <1>3, <2>2, <2>3, <2>4 DEF DeviceLoginReply, notices, screens, TypeOK
<1>4. ASSUME NEW c \in calls, UserInfoReply(c) PROVE TypeOK'
  <2>1. c.by \in Launches /\ c.token \in Accounts \cup {None}
    BY CallFields DEF TypeOK
  <2>2. splash' \in [Launches -> Screens]
    BY <1>4, <2>1, SplashSet DEF UserInfoReply, OpenViewController, TypeOK, Screens
  <2>3. /\ isGameRestart' \in BOOLEAN /\ isChangeLanguage' \in BOOLEAN
        /\ loading' \in BOOLEAN
    <3>1. CASE ~isLoadView
      BY <1>4, <3>1 DEF UserInfoReply, OpenViewController, notices, TypeOK
    <3>2. CASE isLoadView /\ presented = c.by
      BY <1>4, <3>2 DEF UserInfoReply, OpenViewController, ViewWillAppear, TypeOK
    <3>3. CASE isLoadView /\ presented # c.by
      BY <1>4, <3>3 DEF UserInfoReply, OpenViewController, notices, TypeOK
    <3> QED
      BY <3>1, <3>2, <3>3
  <2>4. /\ presented' \in (1..made') \cup {None} /\ made' \in Launches
        /\ errors' \subseteq Launches
    BY <1>4 DEF UserInfoReply, OpenViewController, TypeOK
  <2>5. isLoadView' \in BOOLEAN
    BY <1>4 DEF UserInfoReply, OpenViewController
  <2>6. login' \in [user : Accounts \cup {None},
                    status : {"notLogin", "login", "loginOut"}]
    BY <1>4, <2>1 DEF UserInfoReply
  <2>7. calls' \subseteq Call
    BY <1>4, AnsweredType DEF UserInfoReply
  <2> QED
    BY <1>4, <2>2, <2>3, <2>4, <2>5, <2>6, <2>7
       DEF UserInfoReply, stored, TypeOK, Screens
<1>5. ASSUME NEW c \in calls, EmptyUserInfo(c) PROVE TypeOK'
  <2>1. calls' \subseteq Call
    BY <1>5, AnsweredType DEF EmptyUserInfo
  <2> QED
    BY <1>5, <2>1 DEF EmptyUserInfo, stored, notices, screens, TypeOK
<1>6. ASSUME NEW c \in calls, Failure(c) PROVE TypeOK'
  BY <1>6, AfterFailureType DEF Failure, notices, TypeOK, Screens
<1>7. ASSUME NEW c \in calls, LoginOutReply(c) PROVE TypeOK'
  BY <1>7, AfterFailureType DEF LoginOutReply, LogOutLocally, notices, TypeOK, Screens
<1>8. ASSUME NEW c \in calls, Unanswered(c) PROVE TypeOK'
  <2>1. calls' \subseteq Call
    BY <1>8, AnsweredType DEF Unanswered
  <2> QED
    BY <1>8, <2>1 DEF Unanswered, stored, notices, screens, TypeOK
<1>9. CASE OtherLoginOut
  BY <1>9 DEF OtherLoginOut, LogOutLocally, notices, screens, TypeOK
<1>10. ASSUME NEW i \in Launches, Retry(i) PROVE TypeOK'
  <2>1. PICK d \in Call : calls' = calls \cup {d}
    BY <1>10, SendTranslate DEF Retry
  <2>2. splash' \in [Launches -> Screens]
    BY <1>10, SplashSet DEF Retry, TypeOK, Screens
  <2> QED
    BY <1>10, <2>1, <2>2 DEF Retry, stored, notices, TypeOK, Screens
<1>11. ASSUME NEW d \in dialogs, SignIn(d) PROVE TypeOK'
  <2>1. d \in Dialog
    BY DEF TypeOK
  <2>2. PICK s \in Attempts(d) : signing' = signing \cup {s}
    BY <1>11 DEF SignIn
  <2>3. s \in Attempt
    BY <2>1 DEF Attempts, Attempt
  <2>4. twice' \subseteq Launches
    BY <1>11, DoublesType DEF SignIn
  <2> QED
    BY <1>11, <2>2, <2>3, <2>4 DEF SignIn, stored, notices, screens, TypeOK
<1>12. ASSUME NEW s \in signing, SdkDone(s) PROVE TypeOK'
  <2>1. s.dialog \in Dialog
    BY DEF TypeOK, Attempt
  <2>2. PICK e \in Call : calls' = calls \cup {e}
    BY <1>12, <2>1, SendLogin DEF SdkDone
  <2> QED
    BY <1>12, <2>2 DEF SdkDone, stored, notices, screens, TypeOK
<1>13. ASSUME NEW s \in signing, SdkFailed(s) PROVE TypeOK'
  BY <1>13 DEF SdkFailed, stored, notices, screens, TypeOK
<1>14. ASSUME NEW c \in calls, LoginReply(c) PROVE TypeOK'
  <2>1. c.dialog.launch \in Launches \cup {None}
    BY CallFields, DialogFields, NoDialogLaunch DEF TypeOK
  <2>2. PICK t \in Accounts :
          /\ userToken' = t
          /\ IF c.dialog.launch # None
               THEN loginStatus' = 0 /\ GetUserModel(c, c.dialog.launch, t)
               ELSE Answered(c) /\ UNCHANGED loginStatus
    BY <1>14 DEF LoginReply
  <2>3. calls' \subseteq Call /\ loginStatus' \in 0..1
    <3>1. CASE c.dialog.launch # None
      BY <2>1, <2>2, <3>1, GetUserModelType DEF TypeOK
    <3>2. CASE c.dialog.launch = None
      BY <2>2, <3>2, AnsweredType DEF TypeOK
    <3> QED
      BY <3>1, <3>2
  <2> QED
    BY <1>14, <2>2, <2>3 DEF LoginReply, notices, screens, TypeOK
<1>15. ASSUME NEW d \in dialogs, CloseLogin(d) PROVE TypeOK'
  <2>1. d.by \in Launches /\ userToken \in Accounts \cup {None}
    BY DialogFields DEF TypeOK
  <2>2. PICK e \in Call : calls' = calls \cup {e}
    BY <1>15, <2>1, SendUserInfo DEF CloseLogin
  <2>3. twice' \subseteq Launches
    BY <1>15, DoublesType DEF CloseLogin
  <2> QED
    BY <1>15, <2>2, <2>3 DEF CloseLogin, stored, notices, screens, TypeOK
<1>16. ASSUME NEW d \in dialogs, Recover(d) PROVE TypeOK'
  <2>1. d \in Dialog
    BY DEF TypeOK
  <2>2. PICK e \in Call : calls' = calls \cup {e}
    BY <1>16, <2>1, SendRecovery DEF Recover
  <2>3. twice' \subseteq Launches
    BY <1>16, DoublesType DEF Recover
  <2> QED
    BY <1>16, <2>2, <2>3 DEF Recover, stored, notices, screens, TypeOK
<1>17. ASSUME NEW c \in calls, RecoveryReply(c) PROVE TypeOK'
  <2>1. c.by \in Launches /\ userToken \in Accounts \cup {None}
    BY CallFields DEF TypeOK
  <2>2. calls' \subseteq Call
    BY <1>17, <2>1, GetUserModelType DEF RecoveryReply
  <2> QED
    BY <1>17, <2>2 DEF RecoveryReply, stored, notices, screens, TypeOK
<1>18. ASSUME NEW d \in dialogs, CloseDelete(d) PROVE TypeOK'
  BY <1>18 DEF CloseDelete, notices, screens, TypeOK
<1>19. CASE HideSplashView
  <2>1. splash' \in [Launches -> Screens]
    <3>1. [i \in Launches |-> [splash[i] EXCEPT !.up = FALSE]] \in [Launches -> Screens]
      BY SplashSet DEF TypeOK, Screens, Launches
    <3> QED
      BY <1>19, <3>1 DEF HideSplashView, TypeOK, Screens
  <2> QED
    BY <1>19, <2>1 DEF HideSplashView, stored, notices, TypeOK, Screens
<1>20. CASE LoginOut
  BY <1>20, PresentType DEF LoginOut, LogOutLocally, TypeOK, Screens
<1>21. CASE SetLanguageChange
  BY <1>21, PresentType DEF SetLanguageChange, TypeOK, Screens
<1>22. CASE GetUserInfo
  BY <1>22 DEF GetUserInfo, stored, notices, screens, TypeOK
<1>23. CASE Restart
  <2>1. Request("translate", 0) \in Call /\ 0 \in Launches
    BY RequestType DEF Launches
  <2>2. splash' \in [Launches -> Screens]
    BY <1>23, FirstSplashType DEF Restart
  <2>3. login' \in [user : Accounts \cup {None},
                    status : {"notLogin", "login", "loginOut"}]
    BY <1>23 DEF Restart, NotLogin
  <2>4. made' \in Launches /\ presented' \in (1..made') \cup {None}
    BY <1>23, <2>1 DEF Restart
  <2>5. calls' \subseteq Call
    BY <1>23, <2>1 DEF Restart
  <2>6. /\ running' \in BOOLEAN /\ isLoadView' \in BOOLEAN /\ loading' \in BOOLEAN
        /\ isGameRestart' \in BOOLEAN /\ isChangeLanguage' \in BOOLEAN
        /\ errors' \subseteq Launches /\ dialogs' \subseteq Dialog
        /\ signing' \subseteq Attempt /\ twice' \subseteq Launches
    BY <1>23 DEF Restart
  <2>7. userToken' \in Accounts \cup {None} /\ loginStatus' \in 0..1
    BY <1>23 DEF Restart, stored, TypeOK
  <2> QED
    BY <2>2, <2>3, <2>4, <2>5, <2>6, <2>7 DEF TypeOK, Screens
<1> QED
  BY <1>1, <1>2, <1>3, <1>4, <1>5, <1>6, <1>7, <1>8, <1>9, <1>10, <1>11, <1>12,
     <1>13, <1>14, <1>15, <1>16, <1>17, <1>18, <1>19, <1>20, <1>21, <1>22, <1>23
     DEF Next, Reply, Tap, Sdk, Game

\* The state has its types, and controllers and requests their bounds, for every
\* player and every reply (LaunchViewController, UserManager).
THEOREM TypeCorrect == Spec => []TypeOK
  BY TypeInit, TypeStep, PTL DEF Spec
-----------------------------------------------------------------------------
(* A launch is one thread. *)

LaunchApis == {"translate", "deviceLogin", "userInfo"}

Mine(i) == {c \in calls : c.by = i}
Views(i) == {d \in dialogs : d.by = i}
Trying(i) == {s \in signing : s.dialog.by = i}

\* At most one request, dialog and sign-in of the launch, and only while it is on
\* top; a request of the launch excludes dialogs, a request of a dialog sign-ins.
Thread(i) ==
  /\ i # CurrentVC => Mine(i) = {} /\ Views(i) = {}
  /\ \A c \in Mine(i) :
       /\ Mine(i) = {c} /\ Trying(i) = {}
       /\ c.api \in LaunchApis => Views(i) = {}
       /\ c.api \notin LaunchApis => Views(i) = {c.dialog}
       /\ c.api = "recovery" => c.dialog.kind = "delete"
  /\ \A d \in Views(i) : Views(i) = {d} /\ d.launch \in {i, None}
  /\ \A s \in Trying(i) : /\ Trying(i) = {s}
                          /\ s.dialog \in Views(i) /\ s.dialog.kind # "delete"

\* On top, its launch screen is in the window, and the thread runs only while
\* it is shown.
Lit(i) ==
  /\ i = CurrentVC => splash[i].up
  /\ Mine(i) # {} \/ Views(i) # {} => Shown(i)

\* A dialog reports to the launch that opened it, or to one that has a second
\* chain through it; before the game there is only the root controller.
Linked(d) ==
  /\ d.launch \in {None, d.by} \cup twice
  /\ ~isLoadView => d.by = 0 /\ d.launch \in {None, 0}
Links ==
  /\ \A c \in calls : /\ Linked(c.dialog)
                      /\ c.api \notin LaunchApis => c.dialog.by = c.by
                      /\ ~isLoadView => c.by = 0
  /\ \A d \in dialogs : Linked(d)
  /\ \A s \in signing : Linked(s.dialog)

\* A controller over the game was presented with one of the notices.
Noticed ==
  /\ NoticeDelivered
  /\ ~isLoadView => presented = None /\ ~isGameRestart /\ ~isChangeLanguage
  /\ presented # None => isGameRestart \/ isChangeLanguage

\* A user request carries the token of the device, unless that was cleared.
Owned == twice = {} =>
  \A c \in calls :
    c.api = "userInfo" /\ c.token # None /\ userToken # None => c.token = userToken

Single == \A i \in Launches \ twice : Thread(i) /\ Lit(i)
IInv == /\ TypeOK /\ Single /\ Links /\ Noticed
        /\ Owned /\ OneAccount /\ SplashRemoved

LEMMA Still ==
  ASSUME UNCHANGED <<isLoadView, presented>>
  PROVE  CurrentVC' = CurrentVC /\ GameInFront' = GameInFront
  BY DEF CurrentVC, GameInFront

LEMMA ScreensStill ==
  ASSUME UNCHANGED screens
  PROVE  /\ UNCHANGED <<isLoadView, presented, made, splash, errors, loading>>
         /\ CurrentVC' = CurrentVC /\ GameInFront' = GameInFront
         /\ \A i : Shown(i)' = Shown(i)
<1>1. UNCHANGED <<isLoadView, presented, made, splash, errors, loading>>
  BY DEF screens
<1>2. CurrentVC' = CurrentVC /\ GameInFront' = GameInFront
  BY <1>1, Still
<1>3. \A i : Shown(i)' = Shown(i)
  BY <1>1 DEF Shown
<1> QED
  BY <1>1, <1>2, <1>3

\* While the game is in front no launch is on top.
LEMMA Behind ==
  ASSUME GameInFront, NEW i \in Launches
  PROVE  i # CurrentVC
  BY SessionAssumption DEF GameInFront, CurrentVC, Launches

LEMMA OffTop ==
  ASSUME NEW i, Thread(i), i # CurrentVC
  PROVE  Mine(i) = {} /\ Views(i) = {} /\ Trying(i) = {}
  BY DEF Thread

\* The request in flight of a launch that is one thread.
LEMMA Alone ==
  ASSUME NEW i, Thread(i), NEW c \in calls, c.by = i
  PROVE  /\ Mine(i) = {c} /\ Trying(i) = {} /\ i = CurrentVC
         /\ c.api \in LaunchApis => Views(i) = {}
         /\ c.api \notin LaunchApis => Views(i) = {c.dialog}
         /\ c.api = "recovery" => c.dialog.kind = "delete"
<1>1. c \in Mine(i)
  BY DEF Mine
<1> QED
  BY <1>1 DEF Thread

\* A dialog that takes a tap, if the tap begins no second chain: nothing else
\* of the launch is going on.
LEMMA Waiting ==
  ASSUME TypeOK, NEW i, Thread(i), NEW d \in dialogs, d.by = i, NoHud,
         ~SigningIn(d), ~Recovering(d)
  PROVE  /\ Mine(i) = {} /\ Views(i) = {d} /\ Trying(i) = {}
         /\ i = CurrentVC /\ d.launch \in {i, None}
<1>1. d \in Views(i)
  BY DEF Views
<1>2. Views(i) = {d} /\ i = CurrentVC /\ d.launch \in {i, None}
  BY <1>1 DEF Thread
<1>3. ASSUME NEW s \in Trying(i) PROVE FALSE
  <2>1. s \in signing /\ s.dialog = d
    BY <1>2 DEF Thread, Trying
  <2>2. s \in Attempts(d)
    BY <2>1 DEF TypeOK, Attempt, Attempts
  <2> QED
    BY <2>1, <2>2 DEF SigningIn
<1>4. ASSUME NEW c \in Mine(i) PROVE FALSE
  <2>1. c \in calls /\ c.api \notin LaunchApis /\ c.dialog = d
    BY <1>2 DEF Thread, Mine
  <2>2. c.api = "recovery"
    BY <2>1 DEF TypeOK, Call, LaunchApis, NoHud
  <2> QED
    BY <2>1, <2>2 DEF Recovering
<1> QED
  BY <1>2, <1>3, <1>4

\* The shapes the thread may take after a step.
LEMMA Idle ==
  ASSUME NEW i, Mine(i)' = {}, Views(i)' = {}, Trying(i)' = {}
  PROVE  Thread(i)'
  BY DEF Thread

LEMMA Requesting ==
  ASSUME NEW i, NEW d, Mine(i)' = {d}, d.api \in LaunchApis, i = CurrentVC',
         Views(i)' = {}, Trying(i)' = {}
  PROVE  Thread(i)'
  BY DEF Thread, LaunchApis

LEMMA Asking ==
  ASSUME NEW i, NEW e, Views(i)' = {e}, Mine(i)' = {}, i = CurrentVC',
         e.launch \in {i, None}, Trying(i)' = {}
  PROVE  Thread(i)'
  BY DEF Thread

LEMMA SigningThread ==
  ASSUME NEW i, NEW e, NEW s, Views(i)' = {e}, Mine(i)' = {}, i = CurrentVC',
         e.launch \in {i, None}, Trying(i)' = {s}, s.dialog = e, e.kind # "delete"
  PROVE  Thread(i)'
  BY DEF Thread

LEMMA Answering ==
  ASSUME NEW i, NEW e, NEW c, Views(i)' = {e}, Mine(i)' = {c}, c.dialog = e,
         c.api \notin LaunchApis, c.api = "recovery" => e.kind = "delete",
         i = CurrentVC', e.launch \in {i, None}, Trying(i)' = {}
  PROVE  Thread(i)'
  BY DEF Thread

\* A step that does not concern launch i.
LEMMA Apart ==
  ASSUME NEW i, Thread(i), Lit(i), Mine(i)' = Mine(i), Views(i)' = Views(i),
         Trying(i)' = Trying(i), CurrentVC' = CurrentVC, splash'[i] = splash[i]
  PROVE  Thread(i)' /\ Lit(i)'
  BY DEF Thread, Lit, Shown

\* Launch i is not on top before the step nor after it.
LEMMA Away ==
  ASSUME NEW i, Thread(i), i # CurrentVC, i # CurrentVC',
         Mine(i)' = Mine(i), Views(i)' = Views(i), Trying(i)' = Trying(i)
  PROVE  Thread(i)' /\ Lit(i)'
  BY OffTop DEF Thread, Lit

\* A step on top keeps the screen, if nothing starts while nothing goes on.
LEMMA SameLit ==
  ASSUME NEW i, Lit(i), i = CurrentVC, splash'[i] = splash[i],
         Mine(i) # {} \/ Views(i) # {} \/ (Mine(i)' = {} /\ Views(i)' = {})
  PROVE  Lit(i)'
  BY DEF Lit, Shown

\* What sending and answering do to the requests of a launch.
LEMMA MineAfter ==
  ASSUME NEW c, NEW d, NEW i, calls' = (calls \ {c}) \cup {d}
  PROVE  /\ c.by # i /\ d.by # i => Mine(i)' = Mine(i)
         /\ Mine(i) = {c} /\ d.by = i => Mine(i)' = {d}
         /\ Mine(i) = {c} /\ d.by # i => Mine(i)' = {}
  BY DEF Mine

LEMMA MineSent ==
  ASSUME NEW d, NEW i, calls' = calls \cup {d}
  PROVE  /\ d.by # i => Mine(i)' = Mine(i)
         /\ Mine(i) = {} /\ d.by = i => Mine(i)' = {d}
  BY DEF Mine

LEMMA MineAnswered ==
  ASSUME NEW c, NEW i, Answered(c)
  PROVE  /\ c.by # i => Mine(i)' = Mine(i)
         /\ Mine(i) = {c} => Mine(i)' = {}
  BY DEF Mine, Answered

\* A tap that leaves launch i without a second chain begins none.
LEMMA FirstTap ==
  ASSUME TypeOK, NEW d \in dialogs, NEW first, Tapped(d, first), d.by \notin twice'
  PROVE  ~first
<1>1. d.by \in Launches
  BY DialogFields DEF TypeOK
<1> QED
  BY <1>1 DEF Tapped, Doubles

\* Recovery is asked for by the dialog of a deleted account only, and sign-ins
\* begin in the others.
LEMMA KindOfTap ==
  ASSUME Links, NEW d, Thread(d.by)
  PROVE  /\ Recovering(d) => d.kind = "delete"
         /\ SigningIn(d) => d.kind # "delete"
<1>1. ASSUME NEW c \in calls, c.api = "recovery", c.dialog = d
      PROVE  d.kind = "delete"
  <2>1. c.by = d.by
    BY <1>1 DEF Links, LaunchApis
  <2> QED
    BY <1>1, <2>1, Alone
<1>2. ASSUME NEW s \in Attempts(d), s \in signing PROVE d.kind # "delete"
  <2>1. s.dialog = d
    BY DEF Attempts
  <2>2. s \in Trying(d.by)
    BY <1>2, <2>1 DEF Trying
  <2> QED
    BY <2>1, <2>2 DEF Thread
<1> QED
  BY <1>1, <1>2 DEF Recovering, SigningIn

\* A request of launch i is followed by its user request.
LEMMA UserRequested ==
  ASSUME TypeOK, NEW c \in calls, NEW i \in Launches, NEW j \in Launches,
         NEW t \in Accounts \cup {None}, GetUserModel(c, j, t)
  PROVE  /\ c.by # i /\ j # i => Mine(i)' = Mine(i)
         /\ Mine(i) = {c} /\ j = i =>
              \E d \in Call : Mine(i)' = {d} /\ d.api \in LaunchApis
<1>1. PICK d \in Call : /\ calls' = (calls \ {c}) \cup {d}
                        /\ d.api = "userInfo" /\ d.by = j /\ d.token = t
  BY SendUserInfo DEF GetUserModel
<1>2. d.api \in LaunchApis
  BY <1>1 DEF LaunchApis
<1> QED
  BY <1>1, <1>2, MineAfter

\* A failed request, or one nobody is told the answer of.
LEMMA FailureThread ==
  ASSUME TypeOK, NEW i \in Launches, Thread(i), Lit(i), NEW c \in calls,
         AfterFailure(c) \/ Unanswered(c)
  PROVE  Thread(i)' /\ Lit(i)'
<1>1. Answered(c) /\ UNCHANGED <<dialogs, signing>>
  BY DEF AfterFailure, Unanswered
<1>2. Views(i)' = Views(i) /\ Trying(i)' = Trying(i)
  BY <1>1 DEF Views, Trying
<1>3. UNCHANGED <<isLoadView, presented>>
  BY AfterFailureType, ScreensStill DEF Unanswered
<1>4. CurrentVC' = CurrentVC
  BY <1>3, Still
<1>5. c.by \in Launches
  BY CallFields DEF TypeOK
<1>6. /\ splash'[i].up = splash[i].up
      /\ c.by # i \/ c.api \notin LaunchApis => splash'[i] = splash[i]
  <2>1. CASE UNCHANGED screens
    BY <2>1 DEF screens
  <2>2. CASE NotNetWorkEvent(c.by) /\ c.api \in LaunchApis
    BY <1>5, <2>2 DEF NotNetWorkEvent, TypeOK
  <2> QED
    BY <2>1, <2>2 DEF AfterFailure, Unanswered, LaunchApis
<1>7. CASE c.by # i
  <2>1. Mine(i)' = Mine(i)
    BY <1>1, <1>7, MineAnswered
  <2> QED
    BY <1>2, <1>4, <1>6, <1>7, <2>1, Apart
<1>8. CASE c.by = i
  <2>1. /\ Mine(i) = {c} /\ Trying(i) = {} /\ i = CurrentVC
        /\ c.api \in LaunchApis => Views(i) = {}
        /\ c.api \notin LaunchApis => Views(i) = {c.dialog}
    BY <1>8, Alone
  <2>2. Mine(i)' = {}
    BY <1>1, <2>1, MineAnswered
  <2>3. CASE c.api \in LaunchApis
    <3>1. Thread(i)'
      BY <1>2, <2>1, <2>2, <2>3, Idle
    <3> QED
      BY <1>2, <1>4, <1>6, <2>1, <2>2, <2>3, <3>1 DEF Lit
  <2>4. CASE c.api \notin LaunchApis
    <3>1. c.dialog.launch \in {i, None}
      BY <2>1, <2>4 DEF Thread
    <3>2. Thread(i)'
      BY <1>2, <1>4, <2>1, <2>2, <2>4, <3>1, Asking
    <3>3. Lit(i)'
      BY <1>2, <1>6, <2>1, <2>4, SameLit
    <3> QED
      BY <3>2, <3>3
  <2> QED
    BY <2>3, <2>4
<1> QED
  BY <1>7, <1>8

\* Only the top controller's own reply brings the game to the front; that of
\* another launch changes nothing for launch i.
LEMMA OpeningThread ==
  ASSUME TypeOK, Links, Noticed, NEW i \in Launches, Thread(i), Lit(i),
         NEW c \in calls, UserInfoReply(c)
  PROVE  Thread(i)' /\ Lit(i)'
<1> USE SessionAssumption
<1>1. /\ Answered(c) /\ OpenViewController(c.by) /\ UNCHANGED <<dialogs, signing>>
      /\ c.api \in LaunchApis
  BY DEF UserInfoReply, LaunchApis
<1>2. Views(i)' = Views(i) /\ Trying(i)' = Trying(i)
  BY <1>1 DEF Views, Trying
<1>3. isLoadView' /\ presented' = IF presented = c.by THEN None ELSE presented
  BY <1>1 DEF OpenViewController
<1>4. c.by \in Launches /\ i # None /\ c.by # None
  BY CallFields DEF TypeOK, Launches
<1>5. CurrentVC = c.by => CurrentVC' = None
  BY <1>3, <1>4 DEF CurrentVC, Noticed
<1>6. CASE c.by = i
  <2>1. /\ Mine(i) = {c} /\ Trying(i) = {} /\ i = CurrentVC /\ Views(i) = {}
    BY <1>1, <1>6, Alone
  <2>2. Mine(i)' = {} /\ CurrentVC' # i
    BY <1>1, <1>4, <1>5, <1>6, <2>1, MineAnswered
  <2>3. Thread(i)'
    BY <1>2, <2>1, <2>2, Idle
  <2> QED
    BY <1>2, <2>1, <2>2, <2>3 DEF Lit
<1>7. CASE c.by # i
  <2>1. Mine(i)' = Mine(i)
    BY <1>1, <1>7, MineAnswered
  <2>2. CASE CurrentVC = c.by
    BY <1>2, <1>4, <1>5, <1>7, <2>1, <2>2, Away
  <2>3. CASE CurrentVC # c.by
    <3>1. isLoadView /\ presented # c.by
      BY <2>3 DEF Links, CurrentVC
    <3>2. CurrentVC' = CurrentVC
      BY <1>3, <3>1 DEF CurrentVC
    <3>3. splash'[i] = splash[i]
      BY <1>1, <1>4, <1>7 DEF OpenViewController, TypeOK
    <3> QED
      BY <1>2, <2>1, <3>2, <3>3, Apart
  <2> QED
    BY <2>2, <2>3
<1> QED
  BY <1>6, <1>7

\* A new launch controller over the game.
LEMMA PresentThread ==
  ASSUME TypeOK, NEW i \in Launches, Thread(i), GameInFront, Present
  PROVE  Thread(i)' /\ Lit(i)'
<1>1. /\ made + 1 \in Launches /\ made + 1 # None /\ presented' = made + 1
      /\ isLoadView' /\ CurrentVC' = made + 1
  BY SessionAssumption DEF TypeOK, Present, Launches, GameInFront, CurrentVC
<1>2. i # CurrentVC /\ Mine(i) = {} /\ Views(i) = {} /\ Trying(i) = {}
  BY Behind, OffTop
<1>3. Views(i)' = {} /\ Trying(i)' = {}
  BY <1>2 DEF Present, Views, Trying
<1>4. PICK d \in Call : /\ calls' = calls \cup {d}
                        /\ d.api = "translate" /\ d.by = made + 1
  BY <1>1, SendTranslate DEF Present, LoadLaunch
<1>5. CASE i = made + 1
  <2>1. Mine(i)' = {d} /\ d.api \in LaunchApis
    BY <1>2, <1>4, <1>5, MineSent DEF LaunchApis
  <2>2. Thread(i)'
    BY <1>1, <1>3, <1>5, <2>1, Requesting
  <2>3. splash'[i] = [up |-> TRUE, hidden |-> FALSE]
    BY <1>5 DEF TypeOK, Present, LoadLaunch, NoScreen
  <2> QED
    BY <2>2, <2>3 DEF Lit, Shown
<1>6. CASE i # made + 1
  <2>1. Mine(i)' = Mine(i)
    BY <1>4, <1>6, MineSent
  <2> QED
    BY <1>1, <1>2, <1>3, <1>6, <2>1, Away
<1> QED
  BY <1>5, <1>6

\* Every step of the running process keeps launch i one thread, if it begins
\* no second chain for it.
LEMMA ThreadStep ==
  ASSUME TypeOK, Links, Noticed, NEW i \in Launches, i \notin twice,
         i \notin twice', Thread(i), Lit(i), [Next]_vars, ~Restart
  PROVE  Thread(i)' /\ Lit(i)'
<1> DEFINE Goal == Thread(i)' /\ Lit(i)'
<1> SUFFICES Goal
  OBVIOUS
<1> USE SessionAssumption
<1>1. ASSUME UNCHANGED <<calls, dialogs, signing>>, UNCHANGED screens PROVE Goal
  <2>1. /\ Mine(i)' = Mine(i) /\ Views(i)' = Views(i) /\ Trying(i)' = Trying(i)
        /\ CurrentVC' = CurrentVC /\ splash' = splash
    BY <1>1, ScreensStill DEF Mine, Views, Trying
  <2> QED
    BY <2>1, Apart
<1>2. ASSUME NEW c \in calls, TranslateReply(c) PROVE Goal
  <2>1. /\ c.by \in Launches /\ userToken \in Accounts \cup {None}
        /\ c.api \in LaunchApis /\ UNCHANGED screens
        /\ Views(i)' = Views(i) /\ Trying(i)' = Trying(i)
    BY <1>2, CallFields DEF TypeOK, TranslateReply, LaunchApis, Views, Trying
  <2>2. CurrentVC' = CurrentVC /\ splash' = splash
    BY <2>1, ScreensStill
  <2>3. /\ c.by # i => Mine(i)' = Mine(i)
        /\ Mine(i) = {c} /\ c.by = i =>
             \E d \in Call : Mine(i)' = {d} /\ d.api \in LaunchApis
    <3>1. CASE userToken # None /\ loginStatus = 0
      <4>1. GetUserModel(c, c.by, userToken)
        BY <1>2, <3>1 DEF TranslateReply
      <4> QED
        BY <2>1, <4>1, UserRequested
    <3>2. CASE ~(userToken # None /\ loginStatus = 0)
      <4>1. Sending(calls \ {c}, Request("deviceLogin", c.by))
        BY <1>2, <3>2 DEF TranslateReply
      <4>2. PICK d \in Call : /\ calls' = (calls \ {c}) \cup {d}
                              /\ d.api = "deviceLogin" /\ d.by = c.by
        BY <2>1, <4>1, SendDeviceLogin
      <4>3. d.api \in LaunchApis
        BY <4>2 DEF LaunchApis
      <4> QED
        BY <4>2, <4>3, MineAfter
    <3> QED
      BY <3>1, <3>2
  <2>4. CASE c.by # i
    BY <2>1, <2>2, <2>3, <2>4, Apart
  <2>5. CASE c.by = i
    <3>1. Mine(i) = {c} /\ Trying(i) = {} /\ i = CurrentVC /\ Views(i) = {}
      BY <2>1, <2>5, Alone
    <3>2. PICK d \in Call : Mine(i)' = {d} /\ d.api \in LaunchApis
      BY <2>3, <2>5, <3>1
    <3>3. Thread(i)'
      BY <2>1, <2>2, <3>1, <3>2, Requesting
    <3> QED
      BY <2>2, <3>1, <3>3, SameLit
  <2> QED
    BY <2>4, <2>5
<1>3. ASSUME NEW c \in calls, DeviceLoginReply(c) PROVE Goal
  <2>1. /\ c.by \in Launches /\ c.api \in LaunchApis /\ UNCHANGED screens
        /\ Trying(i)' = Trying(i)
    BY <1>3, CallFields DEF TypeOK, DeviceLoginReply, LaunchApis, Trying
  <2>2. CurrentVC' = CurrentVC /\ splash' = splash
    BY <2>1, ScreensStill
  <2>3. PICK t \in Accounts :
          \/ Open("delete", c) /\ UNCHANGED loginStatus
          \/ Open("closable", c) /\ loginStatus' = 1
          \/ GetUserModel(c, c.by, t) /\ UNCHANGED <<dialogs, loginStatus, twice>>
          \/ Open("forced", c) /\ UNCHANGED loginStatus
    BY <1>3 DEF DeviceLoginReply
  <2>4. CASE GetUserModel(c, c.by, t) /\ UNCHANGED <<dialogs, loginStatus, twice>>
    <3>0. Views(i)' = Views(i)
      BY <2>4 DEF Views
    <3>1. CASE c.by # i
      BY <2>1, <2>2, <2>4, <3>0, <3>1, UserRequested, Apart
    <3>2. CASE c.by = i
      <4>1. Mine(i) = {c} /\ Trying(i) = {} /\ i = CurrentVC /\ Views(i) = {}
        BY <2>1, <3>2, Alone
      <4>2. PICK d \in Call : Mine(i)' = {d} /\ d.api \in LaunchApis
        BY <2>4, <3>2, <4>1, UserRequested
      <4>3. Thread(i)'
        BY <2>1, <2>2, <3>0, <4>1, <4>2, Requesting
      <4> QED
        BY <2>2, <4>1, <4>3, SameLit
    <3> QED
      BY <3>1, <3>2
  <2>5. ASSUME NEW kind \in {"closable", "forced", "delete"}, Open(kind, c)
        PROVE  Goal
    <3> DEFINE e == Opened(kind, c)
    <3>1. /\ Answered(c) /\ dialogs' = dialogs \cup {e}
          /\ e.by = c.by /\ (e.launch = CurrentVC \/ e.launch = None)
      BY <2>5 DEF Open, Opened
    <3> HIDE DEF e
    <3>2. CASE c.by # i
      <4>1. Mine(i)' = Mine(i)
        BY <3>1, <3>2, MineAnswered
      <4>2. Views(i)' = Views(i)
        BY <3>1, <3>2 DEF Views
      <4> QED
        BY <2>1, <2>2, <4>1, <4>2, Apart
    <3>3. CASE c.by = i
      <4>1. Mine(i) = {c} /\ Trying(i) = {} /\ i = CurrentVC /\ Views(i) = {}
        BY <2>1, <3>3, Alone
      <4>2. Mine(i)' = {}
        BY <3>1, <4>1, MineAnswered
      <4>3. Views(i)' = {e}
        BY <3>1, <3>3, <4>1 DEF Views
      <4>4. Thread(i)'
        BY <2>1, <2>2, <3>1, <4>1, <4>2, <4>3, Asking
      <4> QED
        BY <2>2, <4>1, <4>4, SameLit
    <3> QED
      BY <3>2, <3>3
  <2> QED
    BY <2>3, <2>4, <2>5
<1>4. ASSUME NEW c \in calls, UserInfoReply(c) PROVE Goal
  BY <1>4, OpeningThread
<1>5. ASSUME NEW c \in calls, EmptyUserInfo(c) PROVE Goal
  <2>1. Answered(c) /\ UNCHANGED screens /\ UNCHANGED <<dialogs, signing>>
    BY <1>5 DEF EmptyUserInfo
  <2>2. /\ Views(i)' = Views(i) /\ Trying(i)' = Trying(i)
        /\ CurrentVC' = CurrentVC /\ splash' = splash
    BY <2>1, ScreensStill DEF Views, Trying
  <2>3. CASE c.by # i
    <3>1. Mine(i)' = Mine(i)
      BY <2>1, <2>3, MineAnswered
    <3> QED
      BY <2>2, <3>1, Apart
  <2>4. CASE c.by = i
    <3>1. Mine(i) = {c} /\ Trying(i) = {} /\ i = CurrentVC /\ Views(i) = {}
      BY <1>5, <2>4, Alone DEF EmptyUserInfo, LaunchApis
    <3>2. Mine(i)' = {}
      BY <2>1, <3>1, MineAnswered
    <3>3. Thread(i)'
      BY <2>2, <3>1, <3>2, Idle
    <3> QED
      BY <2>2, <3>1, <3>3, SameLit
  <2> QED
    BY <2>3, <2>4
<1>6. ASSUME NEW c \in calls, AfterFailure(c) \/ Unanswered(c) PROVE Goal
  BY <1>6, FailureThread
<1>7. CASE OtherLoginOut \/ GetUserInfo \/ UNCHANGED vars
  BY <1>1, <1>7 DEF OtherLoginOut, GetUserInfo, vars, screens
<1>8. ASSUME NEW k \in Launches, Retry(k) PROVE Goal
  <2>1. /\ k = CurrentVC /\ Uncovered /\ UNCHANGED <<isLoadView, presented>>
        /\ Views(i)' = Views(i) /\ Trying(i)' = Trying(i)
    BY <1>8 DEF Retry, Views, Trying
  <2>2. CurrentVC' = CurrentVC
    BY <2>1, Still
  <2>3. PICK d \in Call : /\ calls' = calls \cup {d}
                         /\ d.api = "translate" /\ d.by = k
    BY <1>8, SendTranslate DEF Retry
  <2>4. CASE k # i
    <3>1. Mine(i)' = Mine(i)
      BY <2>3, <2>4, MineSent
    <3>2. splash'[i] = splash[i]
      BY <1>8, <2>4 DEF Retry, TypeOK
    <3> QED
      BY <2>1, <2>2, <3>1, <3>2, Apart
  <2>5. CASE k = i
    <3>1. Mine(i) = {} /\ Views(i) = {}
      BY <2>1 DEF Uncovered, Lit
    <3>2. Trying(i) = {}
      BY <3>1 DEF Thread
    <3>3. Mine(i)' = {d} /\ d.api \in LaunchApis
      BY <2>3, <2>5, <3>1, MineSent DEF LaunchApis
    <3>4. Thread(i)'
      BY <2>1, <2>2, <2>5, <3>1, <3>2, <3>3, Requesting
    <3>5. splash[i].up
      BY <2>1, <2>5 DEF Lit
    <3>6. splash'[i].up /\ ~splash'[i].hidden
      BY <1>8, <2>5, <3>5 DEF Retry, TypeOK
    <3> QED
      BY <3>4, <3>6 DEF Lit, Shown
  <2> QED
    BY <2>4, <2>5
<1> HIDE DEF Goal
<1>9. ASSUME NEW d \in dialogs, Tap(d) PROVE Goal
  <2> USE DEF Goal
  <2>1. UNCHANGED screens
    BY <1>9 DEF Tap, SignIn, CloseLogin, Recover, CloseDelete
  <2>2. CurrentVC' = CurrentVC /\ splash' = splash
    BY <2>1, ScreensStill
  <2>3. d \in Dialog /\ d.by \in Launches /\ userToken \in Accounts \cup {None}
    BY DialogFields DEF TypeOK
  <2>4. CASE CloseDelete(d)
    BY <1>1, <2>4 DEF CloseDelete
  <2>5. CASE SignIn(d)
    <3>1. /\ Mine(i)' = Mine(i) /\ Views(i)' = Views(i)
          /\ Tapped(d, SigningIn(d)) /\ d.kind # "delete" /\ NoHud
      BY <2>5 DEF SignIn, Mine, Views
    <3>2. PICK s \in Attempts(d) : signing' = signing \cup {s}
      BY <2>5 DEF SignIn
    <3>3. s.dialog = d
      BY DEF Attempts
    <3>4. CASE d.by # i
      <4>1. Trying(i)' = Trying(i)
        BY <3>2, <3>3, <3>4 DEF Trying
      <4> QED
        BY <2>2, <3>1, <4>1, Apart
    <3>5. CASE d.by = i
      <4>1. ~SigningIn(d) /\ ~Recovering(d)
        BY <3>1, <3>5, FirstTap, KindOfTap
      <4>2. /\ Mine(i) = {} /\ Views(i) = {d} /\ Trying(i) = {}
            /\ i = CurrentVC /\ d.launch \in {i, None}
        BY <3>1, <3>5, <4>1, Waiting
      <4>3. Trying(i)' = {s}
        BY <3>2, <3>3, <3>5, <4>2 DEF Trying
      <4>4. Thread(i)'
        BY <2>2, <3>1, <3>3, <4>2, <4>3, SigningThread
      <4> QED
        BY <2>2, <4>2, <4>4, SameLit
    <3> QED
      BY <3>4, <3>5
  <2>6. CASE CloseLogin(d)
    <3>1. /\ Trying(i)' = Trying(i) /\ dialogs' = dialogs \ {d}
          /\ Tapped(d, SigningIn(d)) /\ d.kind # "delete" /\ NoHud
          /\ Sending(calls, UserInfo(d.by, userToken))
      BY <2>6 DEF CloseLogin, Trying
    <3>2. PICK c \in Call : /\ calls' = calls \cup {c} /\ c.api = "userInfo"
                           /\ c.by = d.by
      BY <2>3, <3>1, SendUserInfo
    <3>3. CASE d.by # i
      <4>1. Mine(i)' = Mine(i) /\ Views(i)' = Views(i)
        BY <3>1, <3>2, <3>3, MineSent DEF Views
      <4> QED
        BY <2>2, <3>1, <4>1, Apart
    <3>4. CASE d.by = i
      <4>1. ~SigningIn(d) /\ ~Recovering(d)
        BY <3>1, <3>4, FirstTap, KindOfTap
      <4>2. /\ Mine(i) = {} /\ Views(i) = {d} /\ Trying(i) = {}
            /\ i = CurrentVC
        BY <3>1, <3>4, <4>1, Waiting
      <4>3. Views(i)' = {} /\ Mine(i)' = {c} /\ c.api \in LaunchApis
        BY <3>1, <3>2, <3>4, <4>2, MineSent DEF Views, LaunchApis
      <4>4. Thread(i)'
        BY <2>2, <3>1, <4>2, <4>3, Requesting
      <4> QED
        BY <2>2, <4>2, <4>4, SameLit
    <3> QED
      BY <3>3, <3>4
  <2>7. CASE Recover(d)
    <3>1. /\ Views(i)' = Views(i) /\ Trying(i)' = Trying(i)
          /\ Tapped(d, Recovering(d)) /\ d.kind = "delete" /\ NoHud
          /\ Sending(calls, OfDialog("recovery", d))
      BY <2>7 DEF Recover, Views, Trying
    <3>2. PICK c \in Call : /\ calls' = calls \cup {c} /\ c.api = "recovery"
                           /\ c.by = d.by /\ c.dialog = d
      BY <2>3, <3>1, SendRecovery
    <3>3. CASE d.by # i
      <4>1. Mine(i)' = Mine(i)
        BY <3>2, <3>3, MineSent
      <4> QED
        BY <2>2, <3>1, <4>1, Apart
    <3>4. CASE d.by = i
      <4>1. ~SigningIn(d) /\ ~Recovering(d)
        BY <3>1, <3>4, FirstTap, KindOfTap
      <4>2. /\ Mine(i) = {} /\ Views(i) = {d} /\ Trying(i) = {}
            /\ i = CurrentVC /\ d.launch \in {i, None}
        BY <3>1, <3>4, <4>1, Waiting
      <4>3. Mine(i)' = {c} /\ c.api \notin LaunchApis
        BY <3>2, <3>4, <4>2, MineSent DEF LaunchApis
      <4>4. Thread(i)'
        BY <2>2, <3>1, <3>2, <4>2, <4>3, Answering
      <4> QED
        BY <2>2, <4>2, <4>4, SameLit
    <3> QED
      BY <3>3, <3>4
  <2> QED
    BY <1>9, <2>4, <2>5, <2>6, <2>7 DEF Tap
<1>10. ASSUME NEW s \in signing, Sdk(s) PROVE Goal
  <2> USE DEF Goal
  <2>1. UNCHANGED screens /\ signing' = signing \ {s} /\ Views(i)' = Views(i)
    BY <1>10 DEF Sdk, SdkDone, SdkFailed, Views
  <2>2. CurrentVC' = CurrentVC /\ splash' = splash
    BY <2>1, ScreensStill
  <2>3. s.dialog \in Dialog
    BY DEF TypeOK, Attempt
  <2>4. \/ Mine(i)' = Mine(i)
        \/ /\ s.dialog.by = i
           /\ \E c \in Call : /\ calls' = calls \cup {c} /\ c.api = "login"
                              /\ c.by = i /\ c.dialog = s.dialog
    <3>1. CASE SdkFailed(s)
      BY <3>1 DEF SdkFailed, Mine
    <3>2. CASE SdkDone(s)
      <4>1. PICK c \in Call : /\ calls' = calls \cup {c} /\ c.api = "login"
                             /\ c.by = s.dialog.by /\ c.dialog = s.dialog
        BY <2>3, <3>2, SendLogin DEF SdkDone
      <4> QED
        BY <4>1, MineSent
    <3> QED
      BY <1>10, <3>1, <3>2 DEF Sdk
  <2>5. CASE s.dialog.by # i
    <3>1. Trying(i)' = Trying(i)
      BY <2>1, <2>5 DEF Trying
    <3> QED
      BY <2>1, <2>2, <2>4, <2>5, <3>1, Apart
  <2>6. CASE s.dialog.by = i
    <3> DEFINE d == s.dialog
    <3>1. s \in Trying(i)
      BY <2>6 DEF Trying
    <3>2. /\ Trying(i) = {s} /\ Views(i) = {d} /\ i = CurrentVC
          /\ d.launch \in {i, None} /\ d.kind # "delete"
      BY <3>1 DEF Thread
    <3>3. Mine(i) = {}
      BY <3>1 DEF Thread
    <3>4. Trying(i)' = {}
      BY <2>1, <3>2 DEF Trying
    <3> HIDE DEF d
    <3>5. CASE Mine(i)' = Mine(i)
      <4>1. Thread(i)'
        BY <2>1, <2>2, <3>2, <3>3, <3>4, <3>5, Asking
      <4> QED
        BY <2>2, <3>2, <4>1, SameLit
    <3>6. CASE \E c \in Call : /\ calls' = calls \cup {c} /\ c.api = "login"
                               /\ c.by = i /\ c.dialog = s.dialog
      <4>1. PICK c \in Call : /\ calls' = calls \cup {c} /\ c.api = "login"
                              /\ c.by = i /\ c.dialog = d
        BY <3>6 DEF d
      <4>2. Mine(i)' = {c} /\ c.api \notin LaunchApis
        BY <3>3, <4>1, MineSent DEF LaunchApis
      <4>3. Thread(i)'
        BY <2>1, <2>2, <3>2, <3>4, <4>1, <4>2, Answering
      <4> QED
        BY <2>2, <3>2, <4>3, SameLit
    <3> QED
      BY <2>4, <3>5, <3>6
  <2> QED
    BY <2>5, <2>6
<1>11. ASSUME NEW c \in calls, LoginReply(c) \/ RecoveryReply(c) PROVE Goal
  <2> USE DEF Goal
  <2>1. /\ UNCHANGED screens /\ Trying(i)' = Trying(i)
        /\ dialogs' = dialogs \ {c.dialog}
    BY <1>11 DEF LoginReply, RecoveryReply, Trying
  <2>2. CurrentVC' = CurrentVC /\ splash' = splash
    BY <2>1, ScreensStill
  <2>3. /\ c.api \notin LaunchApis /\ c.by \in Launches
        /\ c.dialog.by = c.by /\ Linked(c.dialog)
        /\ userToken \in Accounts \cup {None}
        /\ c.dialog.launch \in Launches \cup {None}
    BY <1>11, CallFields, DialogFields, NoDialogLaunch
       DEF LoginReply, RecoveryReply, LaunchApis, Links, TypeOK
  <2>4. /\ c.by # i => Mine(i)' = Mine(i)
        /\ Mine(i) = {c} /\ c.by = i =>
             \/ Mine(i)' = {}
             \/ \E d \in Call : Mine(i)' = {d} /\ d.api \in LaunchApis
    <3>1. CASE RecoveryReply(c)
      BY <2>3, <3>1, UserRequested DEF RecoveryReply
    <3>2. CASE LoginReply(c) /\ c.dialog.launch # None
      <4>1. PICK t \in Accounts : GetUserModel(c, c.dialog.launch, t)
        BY <3>2 DEF LoginReply
      <4>2. c.by # i => c.dialog.launch # i
        BY <2>3 DEF Linked, Launches
      <4>3. Mine(i) = {c} /\ c.by = i => c.dialog.launch = i
        BY <2>3, <3>2, Alone DEF Thread
      <4> QED
        BY <2>3, <3>2, <4>1, <4>2, <4>3, UserRequested
    <3>3. CASE LoginReply(c) /\ c.dialog.launch = None
      BY <3>3, MineAnswered DEF LoginReply
    <3> QED
      BY <1>11, <3>1, <3>2, <3>3
  <2>5. CASE c.by # i
    <3>1. Views(i)' = Views(i)
      BY <2>1, <2>3, <2>5 DEF Views
    <3> QED
      BY <2>1, <2>2, <2>4, <2>5, <3>1, Apart
  <2>6. CASE c.by = i
    <3>1. Mine(i) = {c} /\ Trying(i) = {} /\ i = CurrentVC /\ Views(i) = {c.dialog}
      BY <2>3, <2>6, Alone
    <3>2. Views(i)' = {}
      BY <2>1, <3>1 DEF Views
    <3>3. Thread(i)'
      BY <2>1, <2>2, <2>4, <2>6, <3>1, <3>2, Requesting, Idle
    <3> QED
      BY <2>2, <3>1, <3>3, SameLit
  <2> QED
    BY <2>5, <2>6
<1>12. CASE HideSplashView
  <2> USE DEF Goal
  <2>1. /\ UNCHANGED <<isLoadView, presented>> /\ Mine(i)' = Mine(i)
        /\ Views(i)' = Views(i) /\ Trying(i)' = Trying(i)
    BY <1>12 DEF HideSplashView, Mine, Views, Trying
  <2>2. CurrentVC' = CurrentVC
    BY <2>1, Still
  <2>3. CASE GameInFront
    BY <2>1, <2>2, <2>3, Behind, Away
  <2>4. CASE ~GameInFront
    <3>1. splash'[i] = splash[i]
      BY <1>12, <2>4 DEF HideSplashView
    <3> QED
      BY <2>1, <2>2, <3>1, Apart
  <2> QED
    BY <2>3, <2>4
<1>13. CASE LoginOut \/ SetLanguageChange
  BY <1>13, PresentThread DEF LoginOut, SetLanguageChange, Goal
<1>14. ASSUME NEW c \in calls, Reply(c) \/ Unanswered(c) PROVE Goal
  BY <1>2, <1>3, <1>4, <1>5, <1>6, <1>11, <1>14 DEF Reply, Failure, LoginOutReply
<1>15. CASE Game
  BY <1>7, <1>12, <1>13, <1>15 DEF Game
<1> QED
  BY <1>7, <1>8, <1>9, <1>10, <1>14, <1>15 DEF Next
-----------------------------------------------------------------------------
(* Every step keeps the rest of the invariant. *)

\* A request sent by the root or later controller, from no dialog or a linked one.
LEMMA LinkedRequests ==
  ASSUME TypeOK, Links, UNCHANGED isLoadView, twice \subseteq twice',
         dialogs' \subseteq dialogs, signing' \subseteq signing,
         \A d \in calls' : \/ d \in calls
                           \/ /\ ~isLoadView => d.by = 0
                              /\ \/ d.dialog = NoDialog /\ d.api \in LaunchApis
                                 \/ /\ d.dialog.by = d.by
                                    /\ \/ d.dialog \in dialogs
                                       \/ \E s \in signing : d.dialog = s.dialog
  PROVE  Links'
<1>1. ASSUME NEW d, Linked(d) PROVE Linked(d)'
  BY <1>1 DEF Linked
<1>2. Linked(NoDialog)
  BY DEF Linked, NoDialog
<1>3. ASSUME NEW d \in calls'
      PROVE  /\ Linked(d.dialog)' /\ (~isLoadView' => d.by = 0)
             /\ d.api \notin LaunchApis => d.dialog.by = d.by
  <2>1. CASE d \in calls
    BY <1>1, <2>1 DEF Links
  <2>2. CASE /\ ~isLoadView => d.by = 0
             /\ d.dialog = NoDialog /\ d.api \in LaunchApis
    BY <1>1, <1>2, <2>2
  <2>3. CASE /\ ~isLoadView => d.by = 0
             /\ d.dialog.by = d.by
             /\ d.dialog \in dialogs \/ \E s \in signing : d.dialog = s.dialog
    BY <1>1, <2>3 DEF Links
  <2> QED
    BY <1>3, <2>1, <2>2, <2>3
<1> QED
  BY <1>1, <1>3 DEF Links, LaunchApis

\* The dialog of a request that the launch controller sends.
LEMMA PlainRequest ==
  ASSUME NEW S, NEW c, Sending(S, c), c \in Call
  PROVE  \E d \in Call : /\ calls' = S \cup {d} /\ d.api = c.api
                         /\ d.by = c.by /\ d.dialog = c.dialog
  BY SendingAdds DEF Sent

LEMMA UserInfoPlain ==
  ASSUME NEW i \in Launches, NEW t \in Accounts \cup {None}
  PROVE  UserInfo(i, t).dialog = NoDialog
  BY DEF UserInfo, Request

LEMMA LinksStep ==
  ASSUME TypeOK, Links, Noticed, Next, ~Restart
  PROVE  Links' /\ twice \subseteq twice'
<1> DEFINE Goal == Links' /\ twice \subseteq twice'
           Plain(d) == /\ d \in Call /\ d.dialog = NoDialog /\ d.api \in LaunchApis
<1> SUFFICES Goal
  OBVIOUS
<1> USE SessionAssumption
<1>1. ASSUME NEW S, NEW i \in Launches, NEW t \in Accounts \cup {None},
             Sending(S, UserInfo(i, t))
      PROVE  \E d : Plain(d) /\ d.by = i /\ calls' = S \cup {d}
  BY <1>1, PlainRequest, UserInfoType, UserInfoPlain DEF LaunchApis
<1>2. ASSUME NEW S, NEW i \in Launches, NEW api \in {"translate", "deviceLogin"},
             Sending(S, Request(api, i))
      PROVE  \E d : Plain(d) /\ d.by = i /\ calls' = S \cup {d}
  <2>1. Request(api, i).dialog = NoDialog
    BY DEF Request
  <2> QED
    BY <1>2, <2>1, PlainRequest, RequestType DEF LaunchApis
<1>3. ASSUME NEW c \in calls
      PROVE  /\ c.by \in Launches /\ c.token \in Accounts \cup {None}
             /\ c.dialog.launch \in Launches \cup {None}
             /\ ~isLoadView => c.by = 0 /\ c.dialog.launch \in {None, 0}
  BY CallFields, DialogFields, NoDialogLaunch DEF TypeOK, Links, Linked
<1>4. ASSUME UNCHANGED <<isLoadView, dialogs, signing, twice>>, calls' \subseteq calls
      PROVE  Goal
  BY <1>4, LinkedRequests
<1>5. ASSUME NEW c \in calls, TranslateReply(c) PROVE Goal
  <2>1. UNCHANGED <<isLoadView, dialogs, signing, twice>>
    BY <1>5 DEF TranslateReply, screens
  <2>2. userToken \in Accounts \cup {None}
    BY DEF TypeOK
  <2>3. PICK d : Plain(d) /\ d.by = c.by /\ calls' = (calls \ {c}) \cup {d}
    <3>1. CASE userToken # None /\ loginStatus = 0
      BY <1>1, <1>3, <1>5, <2>2, <3>1 DEF TranslateReply, GetUserModel
    <3>2. CASE ~(userToken # None /\ loginStatus = 0)
      <4>1. Sending(calls \ {c}, Request("deviceLogin", c.by))
        BY <1>5, <3>2 DEF TranslateReply
      <4> QED
        BY <1>2, <1>3, <4>1
    <3> QED
      BY <3>1, <3>2
  <2> QED
    BY <1>3, <2>1, <2>3, LinkedRequests
<1>6. ASSUME NEW c \in calls, DeviceLoginReply(c) PROVE Goal
  <2>1. UNCHANGED <<isLoadView, signing>> /\ UNCHANGED screens
    BY <1>6 DEF DeviceLoginReply, screens
  <2>2. PICK t \in Accounts :
          \/ Open("delete", c) /\ UNCHANGED loginStatus
          \/ Open("closable", c) /\ loginStatus' = 1
          \/ GetUserModel(c, c.by, t) /\ UNCHANGED <<dialogs, loginStatus, twice>>
          \/ Open("forced", c) /\ UNCHANGED loginStatus
    BY <1>6 DEF DeviceLoginReply
  <2>3. CASE GetUserModel(c, c.by, t) /\ UNCHANGED <<dialogs, loginStatus, twice>>
    <3>1. PICK d : Plain(d) /\ d.by = c.by /\ calls' = (calls \ {c}) \cup {d}
      BY <1>1, <1>3, <2>3 DEF GetUserModel
    <3> QED
      BY <1>3, <2>1, <2>3, <3>1, LinkedRequests
  <2>4. ASSUME NEW kind \in {"closable", "forced", "delete"}, Open(kind, c)
        PROVE  Goal
    <3>0. PICK e : e = Opened(kind, c)
      OBVIOUS
    <3>1. /\ Answered(c) /\ dialogs' = dialogs \cup {e}
          /\ Doubles(e, e.launch \notin {c.by, None})
          /\ e.by = c.by /\ (e.launch = CurrentVC \/ e.launch = None)
      BY <2>4, <3>0 DEF Open, Opened
    <3>2. twice \subseteq twice' /\ calls' \subseteq calls
      BY <3>1, DoublesType DEF Answered
    <3>3. e.launch \in Launches \cup {None}
      BY <3>1, CurrentType
    <3>4. Linked(e)'
      <4>1. e.launch \in {None, e.by} \cup twice'
        BY <3>1, <3>3 DEF Doubles
      <4>2. ~isLoadView => e.by = 0 /\ e.launch \in {None, 0}
        BY <1>3, <3>1 DEF CurrentVC
      <4> QED
        BY <2>1, <4>1, <4>2 DEF Linked
    <3>5. ASSUME NEW d, Linked(d) PROVE Linked(d)'
      BY <2>1, <3>2, <3>5 DEF Linked
    <3>6. Links'
      BY <2>1, <3>1, <3>2, <3>4, <3>5 DEF Links, LaunchApis
    <3> QED
      BY <3>2, <3>6
  <2> QED
    BY <2>2, <2>3, <2>4
<1>7. ASSUME NEW c \in calls, UserInfoReply(c) PROVE Goal
  <2>1. isLoadView' /\ calls' \subseteq calls /\ UNCHANGED <<dialogs, signing, twice>>
    BY <1>7 DEF UserInfoReply, OpenViewController, Answered
  <2>2. ASSUME NEW d, Linked(d) PROVE Linked(d)'
    BY <2>1, <2>2 DEF Linked
  <2> QED
    BY <2>1, <2>2 DEF Links, LaunchApis
<1>8. ASSUME NEW c \in calls, AfterFailure(c) \/ EmptyUserInfo(c) \/ Unanswered(c)
      PROVE  Goal
  <2>1. calls' \subseteq calls /\ UNCHANGED <<isLoadView, dialogs, signing, twice>>
    BY <1>8, AfterFailureType
       DEF AfterFailure, EmptyUserInfo, Unanswered, Answered, screens
  <2> QED
    BY <1>4, <2>1
<1>9. CASE OtherLoginOut \/ GetUserInfo \/ HideSplashView
  BY <1>4, <1>9 DEF OtherLoginOut, GetUserInfo, HideSplashView, screens
<1>10. ASSUME NEW i \in Launches, Retry(i) PROVE Goal
  <2>1. UNCHANGED <<isLoadView, dialogs, signing, twice>> /\ CurrentVC = i
    BY <1>10 DEF Retry
  <2>2. PICK d : Plain(d) /\ d.by = i /\ calls' = calls \cup {d}
    BY <1>2, <1>10 DEF Retry
  <2> QED
    BY <2>1, <2>2, LinkedRequests DEF CurrentVC
<1>11. ASSUME NEW d \in dialogs, Tap(d) PROVE Goal
  <2>1. /\ isLoadView' = isLoadView /\ twice \subseteq twice'
        /\ d \in Dialog /\ d.by \in Launches /\ Linked(d)
        /\ userToken \in Accounts \cup {None}
    <3>1. twice \subseteq twice'
      BY <1>11, DoublesType DEF Tap, SignIn, CloseLogin, Recover, CloseDelete
    <3>2. isLoadView' = isLoadView
      BY <1>11 DEF Tap, SignIn, CloseLogin, Recover, CloseDelete, screens
    <3> QED
      BY <3>1, <3>2, DialogFields DEF TypeOK, Links
  <2>2. CASE SignIn(d)
    <3>1. PICK s \in Attempts(d) : signing' = signing \cup {s}
      BY <2>2 DEF SignIn
    <3>2. s.dialog = d /\ UNCHANGED <<calls, dialogs>>
      BY <2>2 DEF SignIn, Attempts
    <3>3. ASSUME NEW e, Linked(e) PROVE Linked(e)'
      BY <2>1, <3>3 DEF Linked
    <3>4. Links'
      BY <2>1, <3>1, <3>2, <3>3 DEF Links, LaunchApis
    <3> QED
      BY <2>1, <3>4
  <2>3. CASE CloseLogin(d)
    <3>1. dialogs' \subseteq dialogs /\ UNCHANGED signing
      BY <2>3 DEF CloseLogin
    <3>2. PICK c : Plain(c) /\ c.by = d.by /\ calls' = calls \cup {c}
      BY <1>1, <2>1, <2>3 DEF CloseLogin
    <3> QED
      BY <2>1, <3>1, <3>2, LinkedRequests DEF Linked
  <2>4. CASE Recover(d)
    <3>1. UNCHANGED <<dialogs, signing>>
      BY <2>4 DEF Recover
    <3>2. PICK c \in Call : /\ calls' = calls \cup {c} /\ c.api = "recovery"
                           /\ c.by = d.by /\ c.dialog = d
      BY <2>1, <2>4, SendRecovery DEF Recover
    <3> QED
      BY <2>1, <3>1, <3>2, LinkedRequests DEF Linked
  <2>5. CASE CloseDelete(d)
    BY <1>4, <2>5 DEF CloseDelete, screens
  <2> QED
    BY <1>11, <2>2, <2>3, <2>4, <2>5 DEF Tap
<1>12. ASSUME NEW s \in signing, Sdk(s) PROVE Goal
  <2>1. /\ signing' \subseteq signing /\ UNCHANGED <<isLoadView, dialogs, twice>>
        /\ s.dialog \in Dialog
    BY <1>12 DEF Sdk, SdkDone, SdkFailed, screens, TypeOK, Attempt
  <2>2. CASE SdkFailed(s)
    BY <2>1, <2>2, LinkedRequests DEF SdkFailed
  <2>3. CASE SdkDone(s)
    <3>1. PICK c \in Call : /\ calls' = calls \cup {c} /\ c.api = "login"
                           /\ c.by = s.dialog.by /\ c.dialog = s.dialog
      BY <2>1, <2>3, SendLogin DEF SdkDone
    <3>2. Linked(s.dialog)
      BY DEF Links
    <3> QED
      BY <2>1, <3>1, <3>2, LinkedRequests DEF Linked
  <2> QED
    BY <1>12, <2>2, <2>3 DEF Sdk
<1>13. ASSUME NEW c \in calls, LoginReply(c) \/ RecoveryReply(c) PROVE Goal
  <2>1. /\ dialogs' \subseteq dialogs /\ UNCHANGED <<isLoadView, signing, twice>>
        /\ userToken \in Accounts \cup {None}
    BY <1>13 DEF LoginReply, RecoveryReply, screens, TypeOK
  <2>2. CASE LoginReply(c) /\ c.dialog.launch # None
    <3>1. PICK t \in Accounts : GetUserModel(c, c.dialog.launch, t)
      BY <2>2 DEF LoginReply
    <3>2. PICK d : /\ Plain(d) /\ d.by = c.dialog.launch
                   /\ calls' = (calls \ {c}) \cup {d}
      BY <1>1, <1>3, <2>2, <3>1 DEF GetUserModel
    <3> QED
      BY <1>3, <2>1, <2>2, <3>2, LinkedRequests
  <2>3. CASE LoginReply(c) /\ c.dialog.launch = None
    BY <2>1, <2>3, LinkedRequests DEF LoginReply, Answered
  <2>4. CASE RecoveryReply(c)
    <3>1. PICK d : Plain(d) /\ d.by = c.by /\ calls' = (calls \ {c}) \cup {d}
      BY <1>1, <1>3, <2>1, <2>4 DEF RecoveryReply, GetUserModel
    <3> QED
      BY <1>3, <2>1, <3>1, LinkedRequests
  <2> QED
    BY <1>13, <2>2, <2>3, <2>4
<1>14. CASE LoginOut \/ SetLanguageChange
  <2>1. GameInFront /\ Present
    BY <1>14 DEF LoginOut, SetLanguageChange
  <2>2. made + 1 \in Launches
    BY <2>1 DEF Present, TypeOK, Launches
  <2>3. PICK d : Plain(d) /\ d.by = made + 1 /\ calls' = calls \cup {d}
    BY <1>2, <2>1, <2>2 DEF Present, LoadLaunch
  <2>4. UNCHANGED <<isLoadView, dialogs, signing, twice>> /\ isLoadView
    BY <2>1 DEF Present, GameInFront
  <2> QED
    BY <2>3, <2>4, LinkedRequests
<1> HIDE DEF Goal
<1>15. ASSUME NEW c \in calls, Reply(c) \/ Unanswered(c) PROVE Goal
  BY <1>5, <1>6, <1>7, <1>8, <1>13, <1>15 DEF Reply, Failure, LoginOutReply
<1>16. CASE Game
  BY <1>9, <1>14, <1>16 DEF Game
<1> QED
  BY <1>9, <1>10, <1>11, <1>12, <1>15, <1>16 DEF Next

\* The notices and who is over the game change together.
LEMMA NoticedStep ==
  ASSUME TypeOK, Noticed, Next
  PROVE  Noticed'
<1> USE SessionAssumption
<1>1. ASSUME UNCHANGED notices, UNCHANGED <<isLoadView, presented>> PROVE Noticed'
  BY <1>1, Still DEF Noticed, NoticeDelivered, notices
<1>2. ASSUME NEW c \in calls, UserInfoReply(c) PROVE Noticed'
  <2>1. /\ OpenViewController(c.by) /\ isLoadView'
        /\ presented' = IF presented = c.by THEN None ELSE presented
    BY <1>2 DEF UserInfoReply, OpenViewController
  <2>2. CASE ~isLoadView
    <3>1. presented = None /\ ~isGameRestart /\ ~isChangeLanguage
      BY <2>2 DEF Noticed
    <3>2. UNCHANGED notices /\ presented' = None
      BY <2>1, <2>2, <3>1 DEF OpenViewController
    <3> QED
      BY <2>1, <3>1, <3>2 DEF Noticed, NoticeDelivered, notices
  <2>3. CASE isLoadView /\ presented = c.by
    <3>1. ViewWillAppear /\ presented' = None
      BY <2>1, <2>3 DEF OpenViewController
    <3>2. ~isGameRestart' /\ ~isChangeLanguage'
      BY <3>1 DEF ViewWillAppear, Noticed, NoticeDelivered
    <3> QED
      BY <2>1, <3>1, <3>2 DEF Noticed, NoticeDelivered
  <2>4. CASE isLoadView /\ presented # c.by
    <3>1. UNCHANGED notices /\ UNCHANGED <<isLoadView, presented>>
      BY <2>1, <2>4 DEF OpenViewController
    <3> QED
      BY <1>1, <3>1
  <2> QED
    BY <2>2, <2>3, <2>4
<1>3. ASSUME NEW c \in calls, Reply(c) \/ Unanswered(c) PROVE Noticed'
  <2>1. CASE AfterFailure(c)
    BY <1>1, <2>1, AfterFailureType
  <2>2. CASE \/ TranslateReply(c) \/ DeviceLoginReply(c) \/ LoginReply(c)
             \/ RecoveryReply(c) \/ EmptyUserInfo(c) \/ Unanswered(c)
    BY <1>1, <2>2 DEF TranslateReply, DeviceLoginReply, LoginReply, RecoveryReply,
                      EmptyUserInfo, Unanswered, screens
  <2> QED
    BY <1>2, <1>3, <2>1, <2>2 DEF Reply, Failure, LoginOutReply
<1>4. ASSUME NEW d, Tap(d) \/ Sdk(d) PROVE Noticed'
  BY <1>1, <1>4 DEF Tap, Sdk, SignIn, CloseLogin, Recover, CloseDelete, SdkDone,
                    SdkFailed, screens
<1>5. ASSUME NEW i \in Launches, Retry(i) PROVE Noticed'
  BY <1>1, <1>5 DEF Retry
<1>6. CASE OtherLoginOut \/ GetUserInfo \/ HideSplashView
  BY <1>1, <1>6 DEF OtherLoginOut, GetUserInfo, HideSplashView, screens
<1>7. CASE LoginOut \/ SetLanguageChange
  <2>1. GameInFront /\ Present
    BY <1>7 DEF LoginOut, SetLanguageChange
  <2>2. presented' # None /\ isLoadView'
    BY <2>1 DEF Present, GameInFront, TypeOK, Launches
  <2>3. ~isGameRestart /\ ~isChangeLanguage
    BY <2>1 DEF Noticed, NoticeDelivered
  <2> QED
    BY <1>7, <2>2, <2>3
       DEF LoginOut, SetLanguageChange, Noticed, NoticeDelivered, GameInFront
<1>8. CASE Restart
  BY <1>8 DEF Restart, Noticed, NoticeDelivered, GameInFront
<1> QED
  BY <1>3, <1>4, <1>5, <1>6, <1>7, <1>8 DEF Next, Game

\* While no launch has a second chain, the request in flight is the only one.
LEMMA OnlyOne ==
  ASSUME TypeOK, Single, twice = {}, NEW c \in calls
  PROVE  calls = {c} /\ ~GameInFront
<1>1. ASSUME NEW b \in calls PROVE b.by = CurrentVC /\ Mine(b.by) = {b} /\ ~GameInFront
  <2>1. b.by \in Launches /\ Thread(b.by)
    BY CallFields DEF TypeOK, Single
  <2> QED
    BY <2>1, Alone, Behind
<1>2. ASSUME NEW b \in calls PROVE b = c
  <2>1. b \in Mine(c.by)
    BY <1>1 DEF Mine
  <2> QED
    BY <1>1, <2>1
<1> QED
  BY <1>1, <1>2

\* No user request with an old token is in flight, and none is answered to the
\* game in front.
LEMMA AccountStep ==
  ASSUME TypeOK, Single, Owned, OneAccount, Next, ~Restart, twice \subseteq twice'
  PROVE  Owned' /\ OneAccount'
<1> USE SessionAssumption
<1> SUFFICES ASSUME twice = {}, twice' = {} PROVE Owned' /\ OneAccount'
  BY DEF Owned, OneAccount
<1> DEFINE Owns == \A c \in calls : c.api = "userInfo" /\ c.token # None
                                      /\ userToken # None => c.token = userToken
<1>0. Owns
  BY DEF Owned
<1> HIDE DEF Owns
<1>1. ASSUME UNCHANGED userToken \/ userToken' = None, calls' \subseteq calls
      PROVE  Owned'
  BY <1>0, <1>1 DEF Owned, Owns
<1>2. ASSUME UNCHANGED screens,
             \/ UNCHANGED <<userToken, login>>
             \/ userToken' = None
             \/ ~GameInFront
      PROVE  OneAccount'
  BY <1>2, ScreensStill DEF OneAccount
<1>3. ASSUME NEW S, NEW i \in Launches, NEW t \in Accounts \cup {None},
             Sending(S, UserInfo(i, t))
      PROVE  \E d : calls' = S \cup {d} /\ d.token = t
  BY <1>3, SendUserInfo
<1>4. ASSUME NEW S, NEW d, calls' = S \cup {d}, S \subseteq calls,
             UNCHANGED userToken, d.api = "userInfo" => d.token = userToken
      PROVE  Owned'
  BY <1>0, <1>4 DEF Owned, Owns
<1>5. ASSUME NEW c \in calls, NEW d, NEW t, calls' = (calls \ {c}) \cup {d},
             userToken' = t, d.token = t
      PROVE  Owned'
  BY <1>5, OnlyOne DEF Owned
<1>6. ASSUME NEW c \in calls
      PROVE  /\ c.by \in Launches /\ c.dialog.launch \in Launches \cup {None}
             /\ calls = {c} /\ ~GameInFront
  BY CallFields, DialogFields, NoDialogLaunch, OnlyOne DEF TypeOK
<1>7. userToken \in Accounts \cup {None}
  BY DEF TypeOK
<1>8. ASSUME NEW c \in calls, Reply(c) \/ Unanswered(c) PROVE Owned' /\ OneAccount'
  <2>1. CASE TranslateReply(c)
    <3>1. UNCHANGED screens /\ UNCHANGED userToken
      BY <2>1 DEF TranslateReply, stored
    <3>2. CASE userToken # None /\ loginStatus = 0
      <4>1. PICK d : calls' = (calls \ {c}) \cup {d} /\ d.token = userToken
        BY <1>3, <1>6, <1>7, <2>1, <3>2 DEF TranslateReply, GetUserModel
      <4> QED
        BY <1>2, <1>4, <1>6, <3>1, <4>1
    <3>3. CASE ~(userToken # None /\ loginStatus = 0)
      <4>1. PICK d \in Call : /\ calls' = (calls \ {c}) \cup {d}
                              /\ d.api = "deviceLogin"
        <5>1. Sending(calls \ {c}, Request("deviceLogin", c.by))
          BY <2>1, <3>3 DEF TranslateReply
        <5> QED
          BY <1>6, <5>1, SendDeviceLogin
      <4> QED
        BY <1>2, <1>4, <1>6, <3>1, <4>1
    <3> QED
      BY <3>2, <3>3
  <2>2. CASE DeviceLoginReply(c)
    <3>1. UNCHANGED screens
      BY <2>2 DEF DeviceLoginReply
    <3>2. PICK t \in Accounts :
            /\ userToken' = t
            /\ \/ Open("delete", c) /\ UNCHANGED loginStatus
               \/ Open("closable", c) /\ loginStatus' = 1
               \/ GetUserModel(c, c.by, t) /\ UNCHANGED <<dialogs, loginStatus, twice>>
               \/ Open("forced", c) /\ UNCHANGED loginStatus
      BY <2>2 DEF DeviceLoginReply
    <3>3. CASE calls' = {}
      BY <1>2, <1>6, <3>1, <3>3 DEF Owned
    <3>4. CASE GetUserModel(c, c.by, t)
      <4>1. PICK d : calls' = (calls \ {c}) \cup {d} /\ d.token = t
        BY <1>3, <1>6, <3>4 DEF GetUserModel
      <4> QED
        BY <1>2, <1>5, <1>6, <3>1, <3>2, <4>1
    <3> QED
      BY <1>6, <3>2, <3>3, <3>4 DEF Open, Answered
  <2>3. CASE UserInfoReply(c)
    <3>1. /\ login'.user = c.token /\ c.token # None /\ userToken' = userToken
          /\ c.api = "userInfo" /\ calls' \subseteq calls
      BY <2>3 DEF UserInfoReply, stored, Answered
    <3>2. OneAccount'
      BY <1>0, <3>1 DEF OneAccount, Owns
    <3> QED
      BY <1>1, <3>1, <3>2
  <2>4. CASE AfterFailure(c)
    <3>1. UNCHANGED <<isLoadView, presented>>
      BY <2>4, AfterFailureType
    <3>2. ~GameInFront'
      BY <1>6, <3>1, Still
    <3>3. calls' = {}
      BY <1>6, <2>4 DEF AfterFailure, Answered
    <3> QED
      BY <3>2, <3>3 DEF OneAccount, Owned
  <2>5. CASE LoginReply(c)
    <3>1. UNCHANGED screens
      BY <2>5 DEF LoginReply
    <3>2. PICK t \in Accounts :
            /\ userToken' = t
            /\ IF c.dialog.launch # None
                 THEN GetUserModel(c, c.dialog.launch, t)
                 ELSE Answered(c)
      BY <2>5 DEF LoginReply
    <3>3. CASE c.dialog.launch # None
      <4>1. PICK d : calls' = (calls \ {c}) \cup {d} /\ d.token = t
        BY <1>3, <1>6, <3>2, <3>3 DEF GetUserModel
      <4> QED
        BY <1>2, <1>5, <1>6, <3>1, <3>2, <4>1
    <3>4. CASE c.dialog.launch = None
      <4>1. calls' = {}
        BY <1>6, <3>2, <3>4 DEF Answered
      <4> QED
        BY <1>2, <1>6, <3>1, <4>1 DEF Owned
    <3> QED
      BY <3>3, <3>4
  <2>6. CASE RecoveryReply(c)
    <3>1. UNCHANGED screens /\ UNCHANGED userToken
      BY <2>6 DEF RecoveryReply, stored
    <3>2. PICK d : calls' = (calls \ {c}) \cup {d} /\ d.token = userToken
      <4>1. Sending(calls \ {c}, UserInfo(c.by, userToken))
        BY <2>6 DEF RecoveryReply, GetUserModel
      <4> QED
        BY <1>3, <1>6, <1>7, <4>1
    <3> QED
      BY <1>2, <1>4, <1>6, <3>1, <3>2
  <2>7. CASE EmptyUserInfo(c) \/ Unanswered(c)
    <3>1. UNCHANGED screens /\ UNCHANGED userToken /\ calls' \subseteq calls
      BY <2>7 DEF EmptyUserInfo, Unanswered, stored, Answered
    <3> QED
      BY <1>1, <1>2, <1>6, <3>1
  <2> QED
    BY <1>8, <2>1, <2>2, <2>3, <2>4, <2>5, <2>6, <2>7 DEF Reply, Failure, LoginOutReply
<1>9. ASSUME NEW i \in Launches, Retry(i) PROVE Owned' /\ OneAccount'
  <2>1. /\ UNCHANGED <<isLoadView, presented>> /\ UNCHANGED <<userToken, login>>
        /\ Sending(calls, Request("translate", i))
    BY <1>9 DEF Retry, stored
  <2>2. PICK d \in Call : calls' = calls \cup {d} /\ d.api = "translate"
    BY <2>1, SendTranslate
  <2> QED
    BY <1>4, <2>1, <2>2, Still DEF OneAccount
<1>10. ASSUME NEW d \in dialogs, Tap(d) PROVE Owned' /\ OneAccount'
  <2>1. /\ UNCHANGED screens /\ (UNCHANGED <<userToken, login>> \/ userToken' = None)
        /\ d \in Dialog /\ d.by \in Launches
    BY <1>10, DialogFields
       DEF Tap, SignIn, CloseLogin, Recover, CloseDelete, stored, TypeOK
  <2>2. Owned'
    <3>1. CASE SignIn(d) \/ CloseDelete(d)
      BY <1>1, <2>1, <3>1 DEF SignIn, CloseDelete
    <3>2. CASE CloseLogin(d)
      <4>1. PICK c : calls' = calls \cup {c} /\ c.token = userToken
        BY <1>3, <1>7, <2>1, <3>2 DEF CloseLogin
      <4> QED
        BY <1>4, <3>2, <4>1 DEF CloseLogin, stored
    <3>3. CASE Recover(d)
      <4>1. PICK c \in Call : calls' = calls \cup {c} /\ c.api = "recovery"
        BY <2>1, <3>3, SendRecovery DEF Recover
      <4> QED
        BY <1>4, <3>3, <4>1 DEF Recover, stored
    <3> QED
      BY <1>10, <3>1, <3>2, <3>3 DEF Tap
  <2> QED
    BY <1>2, <2>1, <2>2
<1>11. ASSUME NEW s \in signing, Sdk(s) PROVE Owned' /\ OneAccount'
  <2>1. /\ UNCHANGED screens /\ UNCHANGED <<userToken, login>> /\ s.dialog \in Dialog
    BY <1>11 DEF Sdk, SdkDone, SdkFailed, stored, TypeOK, Attempt
  <2>2. CASE SdkFailed(s)
    BY <1>1, <1>2, <2>1, <2>2 DEF SdkFailed
  <2>3. CASE SdkDone(s)
    <3>1. PICK c \in Call : calls' = calls \cup {c} /\ c.api = "login"
      BY <2>1, <2>3, SendLogin DEF SdkDone
    <3> QED
      BY <1>2, <1>4, <2>1, <3>1
  <2> QED
    BY <1>11, <2>2, <2>3 DEF Sdk
<1>12. CASE OtherLoginOut \/ GetUserInfo
  BY <1>1, <1>2, <1>12 DEF OtherLoginOut, LogOutLocally, GetUserInfo, stored
<1>13. CASE HideSplashView
  <2>1. UNCHANGED <<isLoadView, presented, calls>> /\ UNCHANGED <<userToken, login>>
    BY <1>13 DEF HideSplashView, stored
  <2> QED
    BY <1>1, <2>1, Still DEF OneAccount
<1>14. CASE LoginOut \/ SetLanguageChange
  <2>1. /\ Present /\ (UNCHANGED userToken \/ userToken' = None)
    BY <1>14 DEF LoginOut, SetLanguageChange, LogOutLocally
  <2>2. made + 1 \in Launches /\ presented' # None
    BY <2>1 DEF Present, TypeOK, Launches
  <2>3. PICK d \in Call : calls' = calls \cup {d} /\ d.api = "translate"
    BY <2>1, <2>2, SendTranslate DEF Present, LoadLaunch
  <2> QED
    BY <1>0, <2>1, <2>2, <2>3 DEF OneAccount, GameInFront, Owned, Owns
<1> QED
  BY <1>8, <1>9, <1>10, <1>11, <1>12, <1>13, <1>14 DEF Next, Game

\* A launch with one chain leaves its screen up only until the game hides it:
\* the game comes back loading, and the late reply of another launch, which
\* puts that launch's screen back, has two chains behind it.
LEMMA SplashStep ==
  ASSUME TypeOK, Single, Noticed, SplashRemoved, Next, ~Restart, twice \subseteq twice'
  PROVE  SplashRemoved'
<1> USE SessionAssumption
<1> SUFFICES ASSUME GameInFront', ~loading', NEW i \in Launches, i \notin twice'
             PROVE  ~Shown(i)'
  BY DEF SplashRemoved
<1>1. ASSUME UNCHANGED <<isLoadView, presented, loading>>, Shown(i)' => Shown(i)
      PROVE  ~Shown(i)'
  BY <1>1, Still DEF SplashRemoved
<1>2. ASSUME UNCHANGED screens PROVE ~Shown(i)'
  BY <1>1, <1>2, ScreensStill
<1>3. ASSUME NEW c \in calls, UserInfoReply(c) PROVE ~Shown(i)'
  <2>1. /\ OpenViewController(c.by) /\ UNCHANGED twice /\ c.by \in Launches
        /\ presented' = IF presented = c.by THEN None ELSE presented
    BY <1>3, CallFields DEF UserInfoReply, OpenViewController, TypeOK
  <2>2. isLoadView /\ presented # c.by
    <3>1. CASE ~isLoadView
      BY <2>1, <3>1 DEF OpenViewController
    <3>2. CASE isLoadView /\ presented = c.by
      <4>1. isGameRestart \/ isChangeLanguage
        BY <2>1, <3>2 DEF Noticed, Launches
      <4> QED
        BY <2>1, <3>2, <4>1 DEF OpenViewController, ViewWillAppear
    <3> QED
      BY <3>1, <3>2
  <2>3. GameInFront /\ UNCHANGED <<isLoadView, presented, loading>>
    BY <2>1, <2>2 DEF OpenViewController, GameInFront
  <2>4. c.by \in twice
    <3>1. c.by \notin twice => c.by = CurrentVC
      BY <2>1, Alone DEF Single
    <3> QED
      BY <2>1, <2>3, <3>1, Behind
  <2>5. splash'[i] = splash[i]
    BY <2>1, <2>4 DEF OpenViewController, TypeOK
  <2> QED
    BY <1>1, <2>3, <2>5 DEF Shown
<1>4. ASSUME NEW c \in calls, AfterFailure(c) PROVE ~Shown(i)'
  <2>1. UNCHANGED <<isLoadView, presented, loading>> /\ c.by \in Launches
    BY <1>4, AfterFailureType, CallFields DEF TypeOK
  <2>2. Shown(i)' => Shown(i)
    <3>1. CASE NotNetWorkEvent(c.by)
      BY <2>1, <3>1 DEF NotNetWorkEvent, Shown, TypeOK
    <3>2. CASE UNCHANGED screens
      BY <3>2, ScreensStill
    <3> QED
      BY <1>4, <3>1, <3>2 DEF AfterFailure
  <2> QED
    BY <1>1, <2>1, <2>2
<1>5. ASSUME NEW c \in calls, Reply(c) \/ Unanswered(c) PROVE ~Shown(i)'
  <2>1. CASE \/ TranslateReply(c) \/ DeviceLoginReply(c) \/ LoginReply(c)
             \/ RecoveryReply(c) \/ EmptyUserInfo(c) \/ Unanswered(c)
    BY <1>2, <2>1 DEF TranslateReply, DeviceLoginReply, LoginReply, RecoveryReply,
                      EmptyUserInfo, Unanswered
  <2> QED
    BY <1>3, <1>4, <1>5, <2>1 DEF Reply, Failure, LoginOutReply
<1>6. ASSUME NEW d, Tap(d) \/ Sdk(d) PROVE ~Shown(i)'
  BY <1>2, <1>6 DEF Tap, Sdk, SignIn, CloseLogin, Recover, CloseDelete, SdkDone, SdkFailed
<1>7. ASSUME NEW k \in Launches, Retry(k) PROVE FALSE
  <2>1. CurrentVC = k /\ UNCHANGED <<isLoadView, presented>>
    BY <1>7 DEF Retry
  <2> QED
    BY <2>1, Still, Behind
<1>8. CASE OtherLoginOut \/ GetUserInfo
  BY <1>2, <1>8 DEF OtherLoginOut, GetUserInfo
<1>9. CASE HideSplashView
  <2>1. GameInFront
    BY <1>9, Still DEF HideSplashView
  <2> QED
    BY <1>9, <2>1 DEF HideSplashView, Shown, TypeOK
<1>10. CASE LoginOut \/ SetLanguageChange
  <2>1. presented' = made + 1 /\ made + 1 # None
    BY <1>10 DEF LoginOut, SetLanguageChange, Present, TypeOK, Launches
  <2> QED
    BY <2>1 DEF GameInFront
<1> QED
  BY <1>5, <1>6, <1>7, <1>8, <1>9, <1>10 DEF Next, Game

\* The process as it comes up.
Fresh == /\ calls = {Request("translate", 0)} /\ splash = FirstSplash
         /\ dialogs = {} /\ signing = {}
         /\ isLoadView = FALSE /\ presented = None

LEMMA FreshStart ==
  ASSUME Fresh
  PROVE  Single /\ Links /\ Owned /\ OneAccount /\ SplashRemoved
<1>1. 0 \in Launches /\ CurrentVC = 0 /\ ~GameInFront
  BY SessionAssumption DEF Fresh, Launches, CurrentVC, GameInFront
<1>2. /\ Request("translate", 0).api = "translate" /\ Request("translate", 0).by = 0
      /\ Request("translate", 0).dialog = NoDialog
  BY <1>1, RequestType DEF Request
<1>3. ASSUME NEW i \in Launches PROVE Thread(i) /\ Lit(i)
  <2>1. Views(i) = {} /\ Trying(i) = {}
    BY DEF Fresh, Views, Trying
  <2>2. IF i = 0 THEN Mine(i) = {Request("translate", 0)} ELSE Mine(i) = {}
    BY <1>2 DEF Fresh, Mine
  <2>3. Thread(i)
    BY <1>1, <1>2, <2>1, <2>2 DEF Thread, LaunchApis
  <2>4. splash[0].up /\ ~splash[0].hidden
    BY <1>1 DEF Fresh, FirstSplash, NoScreen
  <2> QED
    BY <1>1, <2>1, <2>2, <2>3, <2>4 DEF Lit, Shown
<1>4. Links
  BY <1>2 DEF Fresh, Links, Linked, NoDialog, LaunchApis
<1>5. Owned
  BY <1>2 DEF Fresh, Owned
<1> QED
  BY <1>1, <1>3, <1>4, <1>5 DEF Single, OneAccount, SplashRemoved

LEMMA InvInit == Init => IInv
<1> SUFFICES ASSUME Init PROVE IInv
  OBVIOUS
<1>1. TypeOK
  BY TypeInit
<1>2. Fresh
  BY DEF Init, Fresh
<1>3. Noticed
  BY DEF Init, Noticed, NoticeDelivered, GameInFront
<1> QED
  BY <1>1, <1>2, <1>3, FreshStart DEF IInv

LEMMA InvStep ==
  ASSUME IInv, [Next]_vars
  PROVE  IInv'
<1>1. TypeOK'
  BY TypeStep DEF IInv
<1>2. CASE UNCHANGED vars
  <2>1. Single'
    BY <1>2 DEF IInv, Single, Thread, Lit, Shown, Mine, Views, Trying, CurrentVC,
                vars, screens
  <2>2. Links' /\ Noticed'
    BY <1>2 DEF IInv, Links, Linked, Noticed, NoticeDelivered, GameInFront,
                vars, screens, notices
  <2>3. Owned' /\ OneAccount' /\ SplashRemoved'
    BY <1>2 DEF IInv, Owned, OneAccount, SplashRemoved, GameInFront, Shown,
                vars, screens, stored
  <2> QED
    BY <1>1, <2>1, <2>2, <2>3 DEF IInv
<1>3. CASE Restart
  <2>1. Fresh'
    BY <1>3 DEF Restart, Fresh
  <2>2. Fresh => Single /\ Links /\ Owned /\ OneAccount /\ SplashRemoved
    BY FreshStart
  <2>3. (Single /\ Links /\ Owned /\ OneAccount /\ SplashRemoved)'
    BY <2>1, FreshStart, PTL
  <2>4. Noticed'
    BY <1>3 DEF Restart, Noticed, NoticeDelivered, GameInFront
  <2> QED
    BY <1>1, <2>3, <2>4 DEF IInv
<1>4. CASE Next /\ ~Restart
  <2>1. Links' /\ twice \subseteq twice'
    BY <1>4, LinksStep DEF IInv
  <2>2. Single'
    <3>1. ASSUME NEW i \in Launches, i \notin twice' PROVE Thread(i)' /\ Lit(i)'
      <4>1. i \notin twice /\ Thread(i) /\ Lit(i)
        BY <2>1, <3>1 DEF IInv, Single
      <4> QED
        BY <1>4, <3>1, <4>1, ThreadStep DEF IInv
    <3> QED
      BY <3>1 DEF Single
  <2>3. Noticed'
    BY <1>4, NoticedStep DEF IInv
  <2>4. Owned' /\ OneAccount'
    BY <1>4, <2>1, AccountStep DEF IInv
  <2>5. SplashRemoved'
    BY <1>4, <2>1, SplashStep DEF IInv
  <2> QED
    BY <1>1, <2>1, <2>2, <2>3, <2>4, <2>5 DEF IInv
<1> QED
  BY <1>2, <1>3, <1>4

LEMMA Invariance == Spec => []IInv
  BY InvInit, InvStep, PTL DEF Spec

\* As long as no tap has begun a second chain, the game in front never has the
\* user of one account and the token of another, whatever replies come in
\* whatever order (UserManager.loginUser, deviceLogin, oauthLoginUser).
THEOREM AccountIsOne == Spec => []OneAccount
<1>1. IInv => OneAccount
  BY DEF IInv
<1> QED
  BY <1>1, Invariance, PTL

\* No launch screen is left over a game that has called hideSplashView, for any
\* player, except those of launches with a second chain of requests; these
\* spoil no other launch (openViewController, LaunchViewController).
THEOREM GameIsUncovered == Spec => []SplashRemoved
<1>1. IInv => SplashRemoved
  BY DEF IInv
<1> QED
  BY <1>1, Invariance, PTL

\* No dialog and no sign-in of a launch is left over the running game, for any
\* player, except those of launches with a second chain of requests
\* (LoginView, DeleteAccountTip4).
THEOREM DialogsAreGone == Spec => []NoStrayDialog
<1>1. IInv => NoStrayDialog
  <2> SUFFICES ASSUME IInv, GameInFront PROVE NoStrayDialog
    BY DEF NoStrayDialog
  <2>1. ASSUME NEW i \in Launches, i \notin twice
        PROVE  Views(i) = {} /\ Trying(i) = {}
    BY <2>1, Behind, OffTop DEF IInv, Single
  <2>2. /\ \A d \in dialogs : d.by \in Launches /\ d \in Views(d.by)
        /\ \A s \in signing : s.dialog.by \in Launches /\ s \in Trying(s.dialog.by)
    BY DialogFields DEF IInv, TypeOK, Attempt, Views, Trying
  <2> QED
    BY <2>1, <2>2 DEF NoStrayDialog
<1> QED
  BY <1>1, Invariance, PTL

\* The game is told of every log-out and every change of language before the
\* player sees it again, for any player (viewWillAppear).
THEOREM NoticesArrive == Spec => []NoticeDelivered
<1>1. IInv => NoticeDelivered
  BY DEF IInv, Noticed
<1> QED
  BY <1>1, Invariance, PTL
=============================================================================
