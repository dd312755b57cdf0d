--------------------------- MODULE Session_proofs ----------------------------
(***************************************************************************)
(* Proofs about Session for any riders, any number of pages, tokens and    *)
(* restarts: type correctness, and that the push token of the device gets  *)
(* to the rider of the home page.                                          *)
(***************************************************************************)
EXTENDS Session, SequenceTheorems, TLAPS

USE RidersAssumption, CompleteAssumption, BoundsAssumption, FaultsAssumption

-----------------------------------------------------------------------------
(* The invariant                                                           *)

\* The token of u in the database will be the device's once every write under
\* way is applied: it is, and none is under way, or the last one carries it.
WillHave(u) ==
    /\ (\A i \in 1..Len(outbox) : outbox[i].key # u) => token[u] = device
    /\ \A i \in 1..Len(outbox) :
          outbox[i].key = u /\ (\A j \in 1..Len(outbox) : j > i => outbox[j].key # u)
             => outbox[i].value = device

PageAsked == \E i \in 1..Len(requests) : requests[i] = "page"

TokenInv ==
    /\ screen # "auth" => user \in Riders
    /\ screen = "home" => currentfirebaseUser = user
    /\ seen <= device
    /\ screen = "home" /\ ~failed /\ seen = device => PageAsked \/ WillHave(user)

SessionInv == TypeOK /\ TokenInv

-----------------------------------------------------------------------------
(* Types                                                                   *)

LEMMA InfoType ==
    ASSUME NEW u \in Riders, NEW page \in 1..MaxPages
    PROVE  getCurrentOnlineUserInfo(u, page) \in Seq(Read)
BY DEF getCurrentOnlineUserInfo, Read

LEMMA RequestNames == {"page", "start", "shared"} \subseteq Request
BY DEF Request

LEMMA SessionInit == Init => SessionInv
<1> SUFFICES ASSUME Init PROVE SessionInv
  OBVIOUS
<1>1. TypeOK
  <2>1. requests \in Seq(Request) /\ reads \in Seq(Read) /\ outbox \in Seq(Write)
    BY RequestNames DEF Init
  <2>2. opened \in 1..MaxPages /\ alive \subseteq 1..opened
    BY DEF Init
  <2>3. device \in Token /\ token \in [Riders -> Token] /\ fcmToken \in Token /\ seen \in Token
    BY DEF Init, Token
  <2>4. failed \in BOOLEAN
    BY DEF Init
  <2>5. QED
    BY <2>1, <2>2, <2>3, <2>4 DEF Init, TypeOK
<1>2. TokenInv
  BY DEF Init, TokenInv
<1>3. QED
  BY <1>1, <1>2 DEF SessionInv

\* The parts of a home page that is built.
LEMMA HomePageType ==
    ASSUME TypeOK, NEW u \in Riders, NEW before \in Seq(Read), HomePage(u, before)
    PROVE  /\ screen' = "home" /\ opened' = opened + 1 /\ opened' \in 1..MaxPages
           /\ reads' \in Seq(Read) /\ currentfirebaseUser' = u
           /\ requests' \in Seq(Request) /\ seen' = device /\ failed' = FALSE
           /\ PageAsked'
<1>1. opened + 1 \in 1..MaxPages
  BY DEF HomePage, TypeOK
<1>2. reads' \in Seq(Read)
  <2>1. reads \in Seq(Read) /\ getCurrentOnlineUserInfo(u, opened + 1) \in Seq(Read)
    BY <1>1, InfoType DEF TypeOK
  <2>2. reads \o before \in Seq(Read)
    BY <2>1, ConcatProperties
  <2>3. QED
    BY <2>1, <2>2, ConcatProperties DEF HomePage
<1>3. requests \in Seq(Request) /\ requests' = Append(requests, "page") /\ "page" \in Request
  BY RequestNames DEF HomePage, TypeOK
<1>4. /\ requests' \in Seq(Request) /\ Len(requests') = Len(requests) + 1
      /\ requests'[Len(requests) + 1] = "page" /\ Len(requests) \in Nat
  BY <1>3, AppendProperties
<1>5. PageAsked'
  BY <1>4 DEF PageAsked
<1>6. QED
  BY <1>1, <1>2, <1>4, <1>5 DEF HomePage

\* What is left of a queue after its first element.
LEMMA Rest ==
    ASSUME NEW S, NEW s \in Seq(S), s # << >>
    PROVE  /\ Head(s) = s[1] /\ Head(s) \in S /\ Len(s) > 0
           /\ Tail(s) \in Seq(S) /\ Len(Tail(s)) = Len(s) - 1
           /\ \A i \in 1..Len(Tail(s)) : i + 1 \in 1..Len(s) /\ Tail(s)[i] = s[i + 1]
           /\ \A i \in 1..Len(s) : i = 1 \/ (i - 1 \in 1..Len(Tail(s)) /\ Tail(s)[i - 1] = s[i])
BY HeadTailProperties

LEMMA PageSteps ==
    ASSUME SessionInv,
           \/ \E u \in Riders : Login(u)
           \/ AuthPageDisposed \/ LeaveHome \/ ReturnHome \/ SignOut \/ SaveProfile
           \/ Restart \/ UNCHANGED vars
    PROVE  SessionInv'
<1> USE DEF SessionInv, login, profile, tokens
<1>1. ASSUME NEW u \in Riders, Login(u) PROVE SessionInv'
  <2>1. HomePage(u, getCurrentOnlineUserInfo(u, opened))
        /\ getCurrentOnlineUserInfo(u, opened) \in Seq(Read)
    BY <1>1, InfoType DEF Login, TypeOK
  <2>2. /\ screen' = "home" /\ opened' = opened + 1 /\ opened' \in 1..MaxPages
        /\ reads' \in Seq(Read) /\ currentfirebaseUser' = u
        /\ requests' \in Seq(Request) /\ seen' = device /\ failed' = FALSE /\ PageAsked'
    BY <2>1, HomePageType
  <2>3. alive' \subseteq 1..opened'
    BY <1>1, <2>2 DEF Login, TypeOK
  <2>4. user' = u /\ UNCHANGED <<riderInfo, complete, device, outbox, token, fcmToken>>
    BY <1>1 DEF Login
  <2>5. TypeOK'
    BY <2>2, <2>3, <2>4 DEF TypeOK
  <2>6. TokenInv'
    BY <2>2, <2>4 DEF TokenInv, TypeOK, Token
  <2>7. QED
    BY <2>5, <2>6
<1>2. CASE ReturnHome
  <2>1. user \in Riders /\ HomePage(user, << >>) /\ << >> \in Seq(Read)
    BY <1>2 DEF ReturnHome, TokenInv
  <2>2. /\ screen' = "home" /\ opened' = opened + 1 /\ opened' \in 1..MaxPages
        /\ reads' \in Seq(Read) /\ currentfirebaseUser' = user
        /\ requests' \in Seq(Request) /\ seen' = device /\ failed' = FALSE /\ PageAsked'
    BY <2>1, HomePageType
  <2>3. alive' \subseteq 1..opened'
    BY <1>2, <2>2 DEF ReturnHome
  <2>4. UNCHANGED <<user, riderInfo, complete, device, outbox, token, fcmToken>>
    BY <1>2 DEF ReturnHome
  <2>5. TypeOK'
    BY <2>1, <2>2, <2>3, <2>4 DEF TypeOK
  <2>6. TokenInv'
    BY <2>1, <2>2, <2>4 DEF TokenInv, TypeOK, Token
  <2>7. QED
    BY <2>5, <2>6
<1>3. CASE AuthPageDisposed
  <2>1. UNCHANGED <<user, screen, opened, currentfirebaseUser, riderInfo, reads, complete,
                    device, requests, outbox, token, fcmToken, seen, failed>>
    BY <1>3 DEF AuthPageDisposed
  <2>2. alive' \subseteq 1..opened'
    BY <1>3 DEF AuthPageDisposed, TypeOK
  <2>3. QED
    BY <2>1, <2>2 DEF TypeOK, TokenInv, PageAsked, WillHave
<1>4. CASE LeaveHome
  <2>1. UNCHANGED <<user, opened, currentfirebaseUser, riderInfo, reads, complete,
                    device, requests, outbox, token, fcmToken, seen, failed>>
        /\ screen' = "tab" /\ alive' = {} /\ user \in Riders
    BY <1>4 DEF LeaveHome, TokenInv
  <2>2. QED
    BY <2>1 DEF TypeOK, TokenInv
<1>5. CASE SignOut \/ SaveProfile
  <2>1. user \in Riders /\ opened + 1 \in 1..MaxPages
    BY <1>5 DEF SignOut, SaveProfile, TokenInv, TypeOK
  <2>2. reads' \in Seq(Read)
    <3>1. reads \in Seq(Read) /\ getCurrentOnlineUserInfo(user, opened + 1) \in Seq(Read)
      BY <2>1, InfoType DEF TypeOK
    <3>2. reads \o getCurrentOnlineUserInfo(user, opened + 1) \in Seq(Read)
      BY <3>1, ConcatProperties
    <3>3. QED
      BY <1>5, <3>1, <3>2 DEF SignOut, SaveProfile
  <2>3. /\ screen' = "auth" /\ opened' = opened + 1 /\ alive' = {opened + 1}
        /\ user' \in Riders \cup {NoOne} /\ complete' \subseteq Riders
        /\ UNCHANGED <<currentfirebaseUser, riderInfo, device, requests, outbox, token,
                       fcmToken, seen, failed>>
    BY <1>5, <2>1 DEF SignOut, SaveProfile, TypeOK
  <2>4. alive' \subseteq 1..opened'
    BY <2>1, <2>3
  <2>5. QED
    BY <2>1, <2>2, <2>3, <2>4 DEF TypeOK, TokenInv
<1>6. CASE Restart
  <2>1. /\ reads' \in Seq(Read) /\ requests' \in Seq(Request) /\ outbox' \in Seq(Write)
        /\ screen' \in {"tab", "details"} /\ alive' = {}
        /\ currentfirebaseUser' = NoOne /\ riderInfo' = NoOne
        /\ UNCHANGED <<user, opened, complete, device, token, fcmToken, seen, failed>>
        /\ user # NoOne
    BY <1>6, RequestNames DEF Restart
  <2>2. QED
    BY <2>1 DEF TypeOK, TokenInv
<1>7. CASE UNCHANGED vars
  BY <1>7 DEF vars, TypeOK, TokenInv, PageAsked, WillHave
<1>8. QED
  BY <1>1, <1>2, <1>3, <1>4, <1>5, <1>6, <1>7

\* A write of the device's token keeps or makes it sure that u will have it.
LEMMA WillHaveAfterIssue ==
    ASSUME outbox \in Seq(Write), NEW w \in Write, w.value = device,
           outbox' = Append(outbox, w), token' = token, device' = device,
           NEW u, WillHave(u) \/ w.key = u
    PROVE  WillHave(u)'
<1> DEFINE n == Len(outbox)
<1>1. /\ n \in Nat /\ Len(outbox') = n + 1 /\ outbox'[n + 1] = w
      /\ \A i \in 1..n : i \in 1..(n + 1) /\ outbox'[i] = outbox[i]
  BY AppendProperties
<1> HIDE DEF n
<1>2. CASE w.key = u
  <2>1. n + 1 \in 1..Len(outbox') /\ outbox'[n + 1].key = u
    BY <1>1, <1>2
  <2>2. \A i \in 1..Len(outbox') : i = n + 1 \/ n + 1 > i
    BY <1>1
  <2>3. ~ \A i \in 1..Len(outbox') : outbox'[i].key # u
    BY <2>1
  <2>4. ASSUME NEW i \in 1..Len(outbox'),
               \A j \in 1..Len(outbox') : j > i => outbox'[j].key # u
        PROVE  outbox'[i].value = device'
    <3>1. i = n + 1
      BY <2>1, <2>2, <2>4
    <3>2. QED
      BY <1>1, <3>1
  <2>5. QED
    BY <2>3, <2>4 DEF WillHave
<1>3. CASE w.key # u
  <2>1. WillHave(u)
    BY <1>3
  <2>2. (\A i \in 1..Len(outbox') : outbox'[i].key # u) => token'[u] = device'
    <3>1. SUFFICES ASSUME \A i \in 1..Len(outbox') : outbox'[i].key # u
                   PROVE  token[u] = device
      OBVIOUS
    <3>2. \A i \in 1..n : outbox[i].key # u
      BY <1>1, <3>1
    <3>3. QED
      BY <2>1, <3>2 DEF WillHave, n
  <2>3. ASSUME NEW i \in 1..Len(outbox'), outbox'[i].key = u,
               \A j \in 1..Len(outbox') : j > i => outbox'[j].key # u
        PROVE  outbox'[i].value = device'
    <3>1. i \in 1..n /\ outbox'[i] = outbox[i]
      <4>1. i # n + 1
        BY <1>1, <1>3, <2>3
      <4>2. QED
        BY <1>1, <4>1
    <3>2. \A j \in 1..n : j > i => outbox[j].key # u
      BY <1>1, <2>3
    <3>3. outbox[i].key = u
      BY <2>3, <3>1
    <3>4. QED
      BY <2>1, <3>1, <3>2, <3>3 DEF WillHave, n
  <2>4. QED
    BY <2>2, <2>3 DEF WillHave
<1>4. QED
  BY <1>2, <1>3

LEMMA WillHaveAfterApply ==
    ASSUME TypeOK, Apply, NEW u \in Riders, WillHave(u)
    PROVE  WillHave(u)'
<1>1. outbox \in Seq(Write) /\ outbox # << >> /\ outbox' = Tail(outbox) /\ device' = device
  BY DEF Apply, TypeOK
<1>2. /\ Head(outbox) = outbox[1] /\ 1 \in 1..Len(outbox)
      /\ Len(outbox') = Len(outbox) - 1 /\ Len(outbox) \in Nat
      /\ \A i \in 1..Len(outbox') : i + 1 \in 1..Len(outbox) /\ outbox'[i] = outbox[i + 1]
      /\ \A i \in 1..Len(outbox) : i = 1 \/ (i - 1 \in 1..Len(outbox') /\ outbox'[i - 1] = outbox[i])
  BY <1>1, Rest
<1>3. token'[u] = IF outbox[1].key = u THEN outbox[1].value ELSE token[u]
  BY <1>2 DEF Apply, TypeOK
<1>4. ASSUME \A i \in 1..Len(outbox') : outbox'[i].key # u
      PROVE  token'[u] = device'
  <2>1. \A i \in 1..Len(outbox) : i = 1 \/ outbox[i].key # u
    BY <1>2, <1>4
  <2>2. CASE outbox[1].key = u
    <3>1. \A j \in 1..Len(outbox) : j > 1 => outbox[j].key # u
      BY <2>1
    <3>2. outbox[1].value = device
      BY <1>2, <2>2, <3>1 DEF WillHave
    <3>3. QED
      BY <1>1, <1>3, <2>2, <3>2
  <2>3. CASE outbox[1].key # u
    <3>1. \A i \in 1..Len(outbox) : outbox[i].key # u
      BY <2>1, <2>3
    <3>2. token[u] = device
      BY <3>1 DEF WillHave
    <3>3. QED
      BY <1>1, <1>3, <2>3, <3>2
  <2>4. QED
    BY <2>2, <2>3
<1>5. ASSUME NEW i \in 1..Len(outbox'), outbox'[i].key = u,
             \A j \in 1..Len(outbox') : j > i => outbox'[j].key # u
      PROVE  outbox'[i].value = device'
  <2>1. i + 1 \in 1..Len(outbox) /\ outbox'[i] = outbox[i + 1]
    BY <1>2
  <2>2. ASSUME NEW j \in 1..Len(outbox), j > i + 1 PROVE outbox[j].key # u
    <3>1. j - 1 \in 1..Len(outbox') /\ outbox'[j - 1] = outbox[j] /\ j - 1 > i
      BY <1>2, <2>2
    <3>2. QED
      BY <1>5, <3>1
  <2>3. outbox[i + 1].key = u
    BY <1>5, <2>1
  <2>4. outbox[i + 1].value = device
    BY <2>1, <2>2, <2>3 DEF WillHave
  <2>5. QED
    BY <1>1, <2>1, <2>4
<1>6. QED
  BY <1>4, <1>5 DEF WillHave

LEMMA InfoSteps ==
    ASSUME SessionInv, InfoRead \/ SetRider \/ ReadFails
    PROVE  SessionInv'
<1> USE DEF SessionInv, login, tokens
<1>1. reads \in Seq(Read) /\ reads # << >>
  BY DEF InfoRead, SetRider, ReadFails, TypeOK
<1>2. Head(reads) \in Read /\ Tail(reads) \in Seq(Read)
  BY <1>1, Rest
<1>3. [Head(reads) EXCEPT !.what = "info_again"] \in Read
  BY <1>2 DEF Read
<1>4. Append(Tail(reads), [Head(reads) EXCEPT !.what = "info_again"]) \in Seq(Read)
  BY <1>2, <1>3, AppendProperties
<1>5. reads' \in Seq(Read)
  BY <1>2, <1>4 DEF InfoRead, SetRider, ReadFails
<1>6. riderInfo' \in Riders \cup {NoOne}
  BY <1>2 DEF InfoRead, SetRider, ReadFails, TypeOK, Read
<1>7. /\ UNCHANGED <<user, screen, opened, alive, currentfirebaseUser, complete,
                     device, requests, outbox, token, fcmToken, seen>>
      /\ failed' = failed \/ failed' = TRUE
  BY DEF InfoRead, SetRider, ReadFails
<1>8. TypeOK'
  BY <1>5, <1>6, <1>7 DEF TypeOK
<1>9. TokenInv'
  BY <1>7 DEF TokenInv, PageAsked, WillHave
<1>10. QED
  BY <1>8, <1>9

LEMMA AnswerStep ==
    ASSUME SessionInv, TokenAnswered
    PROVE  SessionInv'
<1> USE DEF SessionInv, login, profile
<1> DEFINE key == Target(Head(requests))
           write == [key |-> key, value |-> device]
<1>1. /\ Head(requests) = requests[1] /\ Head(requests) \in Request
      /\ requests' \in Seq(Request)
      /\ \A i \in 1..Len(requests) :
            i = 1 \/ (i - 1 \in 1..Len(requests') /\ requests'[i - 1] = requests[i])
  BY Rest DEF TokenAnswered, TypeOK
<1>2. /\ key = NoOne => outbox' = outbox
      /\ key # NoOne => outbox' = Append(outbox, write)
      /\ UNCHANGED <<user, screen, opened, alive, currentfirebaseUser, riderInfo, reads,
                     complete, device, token, fcmToken, seen, failed>>
  BY DEF TokenAnswered, Issue
<1>3. key # NoOne => write \in Write
  BY DEF Target, Write, TypeOK
<1>4. outbox \in Seq(Write)
  BY DEF TypeOK
<1>5. outbox' \in Seq(Write)
  BY <1>2, <1>3, <1>4, AppendProperties
<1>6. TypeOK'
  BY <1>1, <1>2, <1>5 DEF TypeOK
<1>7. ASSUME screen = "home", ~failed, seen = device
      PROVE  PageAsked' \/ WillHave(user)'
  <2>1. user \in Riders /\ currentfirebaseUser = user /\ user # NoOne
    BY <1>7 DEF TokenInv
  <2>2. CASE PageAsked /\ requests[1] # "page"
    <3>1. PICK i \in 1..Len(requests) : requests[i] = "page"
      BY <2>2 DEF PageAsked
    <3>2. i - 1 \in 1..Len(requests') /\ requests'[i - 1] = "page"
      BY <1>1, <2>2, <3>1
    <3>3. QED
      BY <3>2 DEF PageAsked
  <2>3. CASE requests[1] = "page"
    <3>1. key = user
      BY <1>1, <2>1, <2>3 DEF Target
    <3>2. write.key = user /\ write.value = device /\ write \in Write
          /\ outbox' = Append(outbox, write)
      BY <1>2, <1>3, <2>1, <3>1
    <3> HIDE DEF write
    <3>3. \A u : u = user => WillHave(u)'
      BY <1>2, <1>4, <3>2, WillHaveAfterIssue
    <3>4. QED
      BY <1>2, <3>3 DEF WillHave
  <2>4. CASE WillHave(user)
    <3>1. CASE key = NoOne
      BY <1>2, <2>4, <3>1 DEF WillHave
    <3>2. CASE key # NoOne
      <4>1. write.value = device /\ write \in Write /\ outbox' = Append(outbox, write)
        BY <1>2, <1>3, <3>2
      <4> HIDE DEF write
      <4>2. \A u : u = user => WillHave(u)'
        BY <1>2, <1>4, <2>4, <4>1, WillHaveAfterIssue
      <4>3. QED
        BY <1>2, <4>2 DEF WillHave
    <3>3. QED
      BY <3>1, <3>2
  <2>5. QED
    BY <1>7, <2>2, <2>3, <2>4 DEF TokenInv
<1>8. TokenInv'
  BY <1>2, <1>7 DEF TokenInv
<1>9. QED
  BY <1>6, <1>8

LEMMA TokenSteps ==
    ASSUME SessionInv, TokenFails \/ TokenNull \/ TokenRefreshed \/ Apply
    PROVE  SessionInv'
<1> USE DEF SessionInv, login, profile
<1>1. CASE TokenFails
  <2>1. requests' \in Seq(Request)
    BY <1>1, Rest DEF TokenFails, TypeOK
  <2>2. /\ failed' = TRUE
        /\ UNCHANGED <<user, screen, opened, alive, currentfirebaseUser, riderInfo, reads,
                       complete, device, outbox, token, fcmToken, seen>>
    BY <1>1 DEF TokenFails
  <2>3. QED
    BY <2>1, <2>2 DEF TypeOK, TokenInv
<1>2. CASE TokenRefreshed
  <2>1. requests' \in Seq(Request)
    <3>1. "shared" \in Request /\ requests \in Seq(Request)
      BY RequestNames DEF TypeOK
    <3>2. QED
      BY <1>2, <3>1, AppendProperties DEF TokenRefreshed
  <2>2. /\ device' = device + 1 /\ device < MaxTokens
        /\ UNCHANGED <<user, screen, opened, alive, currentfirebaseUser, riderInfo, reads,
                       complete, outbox, token, fcmToken, seen, failed>>
    BY <1>2 DEF TokenRefreshed
  <2>3. device' \in Token /\ device' > device /\ seen' <= device' /\ seen' # device'
    BY <2>2 DEF TypeOK, TokenInv, Token
  <2>4. TypeOK'
    BY <2>1, <2>2, <2>3 DEF TypeOK
  <2>5. TokenInv'
    BY <2>2, <2>3 DEF TokenInv
  <2>6. QED
    BY <2>4, <2>5
<1>3. CASE Apply
  <2>1. Head(outbox) \in Write /\ outbox' \in Seq(Write)
    BY <1>3, Rest DEF Apply, TypeOK
  <2>2. /\ token' \in [Riders -> Token] /\ fcmToken' \in Token
        /\ UNCHANGED <<user, screen, opened, alive, currentfirebaseUser, riderInfo, reads,
                       complete, device, requests, seen, failed>>
    BY <1>3, <2>1 DEF Apply, TypeOK, Write
  <2>3. TypeOK'
    BY <2>1, <2>2 DEF TypeOK
  <2>4. \A u \in Riders : WillHave(u) => WillHave(u)'
    BY <1>3, WillHaveAfterApply
  <2>5. WillHave(user) /\ user \in Riders => WillHave(user)'
    BY <2>2, <2>4 DEF WillHave
  <2>6. PageAsked => PageAsked'
    BY <2>2 DEF PageAsked
  <2>7. TokenInv'
    BY <2>2, <2>5, <2>6 DEF TokenInv
  <2>8. QED
    BY <2>3, <2>7
<1>4. CASE TokenNull
  <2>1. requests' \in Seq(Request)
    BY <1>4, Rest DEF TokenNull, TypeOK
  <2>2. outbox' \in Seq(Write)
    <3>1. currentfirebaseUser # NoOne => [key |-> currentfirebaseUser, value |-> 0] \in Write
      BY DEF Write, Token, TypeOK
    <3>2. outbox \in Seq(Write)
      BY DEF TypeOK
    <3>3. QED
      BY <1>4, <3>1, <3>2, AppendProperties DEF TokenNull
  <2>3. /\ failed' = TRUE
        /\ UNCHANGED <<user, screen, opened, alive, currentfirebaseUser, riderInfo, reads,
                       complete, device, token, fcmToken, seen>>
    BY <1>4 DEF TokenNull
  <2>4. QED
    BY <2>1, <2>2, <2>3 DEF TypeOK, TokenInv
<1>5. QED
  BY <1>1, <1>2, <1>3, <1>4

LEMMA SessionNext == SessionInv /\ [Next]_vars => SessionInv'
BY PageSteps, InfoSteps, AnswerStep, TokenSteps DEF Next

-----------------------------------------------------------------------------
(* Whose data the provider holds                                           *)

\* The read of the home page is under way.  What comes behind it is in its second
\* round and is answered before it; in its own second round it is last.
ReadUnderWay ==
    \E i \in 1..Len(reads) :
        /\ reads[i].of = user /\ reads[i].by = opened
        /\ \A j \in 1..Len(reads) : j > i => reads[j].what = "info_again"
        /\ reads[i].what = "info_again" =>
              i = Len(reads) /\ \A j \in 1..Len(reads) : reads[j].what = "info_again"

InfoInv ==
    screen = "home" /\ ~failed /\ user \in complete =>
        /\ opened \in alive
        /\ (reads = << >> /\ riderInfo = user) \/ ReadUnderWay

\* The home page appends its read as the last one.
LEMMA HomePageReads ==
    ASSUME TypeOK, NEW u \in Riders, NEW before \in Seq(Read), HomePage(u, before), user' = u
    PROVE  ReadUnderWay'
<1> DEFINE s == reads \o before
           r == [what |-> "info", of |-> u, by |-> opened + 1]
           n == Len(s)
<1>1. opened' = opened + 1 /\ opened + 1 \in 1..MaxPages /\ s \in Seq(Read)
  BY ConcatProperties DEF HomePage, TypeOK
<1>2. r \in Read /\ r.what = "info" /\ r.of = u /\ r.by = opened + 1
  BY <1>1 DEF Read
<1>3. reads' = s \o <<r>>
  BY DEF HomePage, getCurrentOnlineUserInfo
<1> HIDE DEF s, r
<1>4. n \in Nat /\ Len(reads') = n + 1 /\ reads'[n + 1] = r
  <2>1. <<r>> \in Seq(Read) /\ Len(<<r>>) = 1 /\ <<r>>[1] = r
    BY <1>2
  <2>2. QED
    BY <1>1, <1>3, <2>1, ConcatProperties
<1> HIDE DEF n
<1>5. n + 1 \in 1..Len(reads') /\ \A j \in 1..Len(reads') : ~(j > n + 1)
  BY <1>4
<1>6. reads'[n + 1].of = user' /\ reads'[n + 1].by = opened' /\ reads'[n + 1].what = "info"
  BY <1>1, <1>2, <1>4
<1>7. QED
  BY <1>5, <1>6 DEF ReadUnderWay

LEMMA InfoPages ==
    ASSUME SessionInv, InfoInv,
           \/ \E u \in Riders : Login(u)
           \/ AuthPageDisposed \/ LeaveHome \/ ReturnHome \/ SignOut \/ SaveProfile
           \/ Restart \/ UNCHANGED vars
    PROVE  InfoInv'
<1>1. ASSUME NEW u \in Riders, Login(u) PROVE InfoInv'
  <2>1. /\ HomePage(u, getCurrentOnlineUserInfo(u, opened)) /\ user' = u
        /\ getCurrentOnlineUserInfo(u, opened) \in Seq(Read) /\ TypeOK
    BY <1>1, InfoType DEF Login, TypeOK, SessionInv
  <2>2. ReadUnderWay'
    BY <2>1, HomePageReads
  <2>3. opened' \in alive'
    BY <1>1 DEF Login, HomePage
  <2>4. QED
    BY <2>2, <2>3 DEF InfoInv
<1>2. CASE ReturnHome
  <2>1. /\ HomePage(user, << >>) /\ user' = user /\ user \in Riders
        /\ << >> \in Seq(Read) /\ TypeOK
    BY <1>2 DEF ReturnHome, SessionInv, TokenInv
  <2>2. ReadUnderWay'
    BY <2>1, HomePageReads
  <2>3. opened' \in alive'
    BY <1>2 DEF ReturnHome, HomePage
  <2>4. QED
    BY <2>2, <2>3 DEF InfoInv
<1>3. CASE AuthPageDisposed
  <2>1. UNCHANGED <<user, screen, opened, riderInfo, reads, complete, failed>>
        /\ opened' \in alive'
    BY <1>3 DEF AuthPageDisposed, profile
  <2>2. QED
    BY <2>1 DEF InfoInv, ReadUnderWay
<1>4. CASE LeaveHome \/ SignOut \/ SaveProfile \/ Restart
  <2>1. screen' # "home"
    BY <1>4 DEF LeaveHome, SignOut, SaveProfile, Restart
  <2>2. QED
    BY <2>1 DEF InfoInv
<1>5. CASE UNCHANGED vars
  BY <1>5 DEF vars, login, profile, tokens, InfoInv, ReadUnderWay
<1>6. QED
  BY <1>1, <1>2, <1>3, <1>4, <1>5

LEMMA InfoAnswers ==
    ASSUME SessionInv, InfoInv, InfoRead \/ SetRider
    PROVE  InfoInv'
<1>1. /\ reads \in Seq(Read) /\ reads # << >>
      /\ UNCHANGED <<user, screen, opened, alive, complete, failed>>
  BY DEF InfoRead, SetRider, SessionInv, TypeOK, login
<1>2. /\ Head(reads) = reads[1] /\ Head(reads) \in Read /\ Len(reads) \in Nat \ {0}
      /\ Tail(reads) \in Seq(Read) /\ Len(Tail(reads)) = Len(reads) - 1
      /\ \A i \in 1..Len(Tail(reads)) : i + 1 \in 1..Len(reads) /\ Tail(reads)[i] = reads[i + 1]
      /\ \A i \in 1..Len(reads) : i = 1 \/ (i - 1 \in 1..Len(Tail(reads)) /\ Tail(reads)[i - 1] = reads[i])
  BY <1>1, Rest
<1>3. SUFFICES ASSUME screen = "home", ~failed, user \in complete
               PROVE  (reads' = << >> /\ riderInfo' = user) \/ ReadUnderWay'
  BY <1>1 DEF InfoInv
<1>4. opened \in alive /\ ReadUnderWay
  BY <1>1, <1>3 DEF InfoInv
<1>5. PICK i \in 1..Len(reads) :
        /\ reads[i].of = user /\ reads[i].by = opened
        /\ \A j \in 1..Len(reads) : j > i => reads[j].what = "info_again"
        /\ reads[i].what = "info_again" =>
              i = Len(reads) /\ \A j \in 1..Len(reads) : reads[j].what = "info_again"
  BY <1>4 DEF ReadUnderWay
<1>6. CASE InfoRead
  <2> DEFINE n == Len(reads)
             last == [reads[1] EXCEPT !.what = "info_again"]
  <2>1. /\ reads' = Append(Tail(reads), last) /\ reads[1].what = "info"
        /\ last.of = reads[1].of /\ last.by = reads[1].by /\ last.what = "info_again"
        /\ last \in Read
    BY <1>2, <1>6 DEF InfoRead, Read
  <2> HIDE DEF last
  <2>2. /\ Len(reads') = n /\ reads'[n] = last /\ n \in 1..n
        /\ \A j \in 1..n : j = n \/ (j + 1 \in 1..n /\ reads'[j] = reads[j + 1])
    <3>1. /\ Len(reads') = Len(Tail(reads)) + 1 /\ reads'[Len(Tail(reads)) + 1] = last
          /\ \A j \in 1..Len(Tail(reads)) : reads'[j] = Tail(reads)[j]
      BY <1>2, <2>1, AppendProperties
    <3>2. Len(Tail(reads)) = n - 1 /\ Len(Tail(reads)) + 1 = n /\ n \in Nat \ {0}
      BY <1>2
    <3>3. Len(reads') = n /\ reads'[n] = last /\ n \in 1..n
      BY <3>1, <3>2
    <3> HIDE DEF n
    <3>4. ASSUME NEW j \in 1..n, j # n
          PROVE  j + 1 \in 1..n /\ reads'[j] = reads[j + 1]
      <4>1. j \in 1..(n - 1) /\ j + 1 \in 1..n
        BY <3>2, <3>4
      <4>2. j \in 1..Len(Tail(reads))
        BY <3>2, <4>1
      <4>3. QED
        BY <1>2, <3>1, <4>1, <4>2
    <3>5. QED
      BY <3>3, <3>4
  <2> HIDE DEF n
  <2>3. n = Len(reads) /\ n \in Nat
    BY <1>2 DEF n
  <2>4. CASE i = 1
    <3>1. \A j \in 1..n : reads'[j].what = "info_again"
      <4>1. SUFFICES ASSUME NEW j \in 1..n, j # n PROVE reads'[j].what = "info_again"
        BY <2>1, <2>2
      <4>2. j + 1 \in 1..n /\ j + 1 > i /\ reads'[j] = reads[j + 1]
        BY <2>2, <2>4, <4>1
      <4>3. QED
        BY <1>5, <2>3, <4>2
    <3>2. reads'[n].of = user' /\ reads'[n].by = opened'
      BY <1>1, <1>5, <2>1, <2>2, <2>4
    <3>3. QED
      BY <2>2, <3>1, <3>2 DEF ReadUnderWay
  <2>5. CASE i # 1
    <3> DEFINE k == i - 1
    <3>1. k \in 1..n /\ k # n /\ k + 1 = i /\ reads'[k] = reads[i]
      BY <1>5, <2>2, <2>3, <2>5
    <3> HIDE DEF k
    <3>2. reads[i].what # "info_again"
      <4>1. 1 \in 1..Len(reads)
        BY <1>2
      <4>2. QED
        BY <1>5, <2>1, <4>1
    <3>3. ASSUME NEW j \in 1..n, j > k PROVE reads'[j].what = "info_again"
      <4>1. CASE j = n
        BY <2>1, <2>2, <4>1
      <4>2. CASE j # n
        <5>1. j + 1 \in 1..n /\ j + 1 > i /\ reads'[j] = reads[j + 1]
          BY <2>2, <3>1, <3>3, <4>2
        <5>2. QED
          BY <1>5, <2>3, <5>1
      <4>3. QED
        BY <4>1, <4>2
    <3>4. reads'[k].of = user' /\ reads'[k].by = opened' /\ reads'[k].what # "info_again"
      BY <1>1, <1>5, <3>1, <3>2
    <3>5. QED
      BY <2>2, <3>1, <3>3, <3>4 DEF ReadUnderWay
  <2>6. QED
    BY <2>4, <2>5
<1>7. CASE SetRider
  <2>1. /\ reads' = Tail(reads)
        /\ riderInfo' = IF reads[1].of \in complete /\ reads[1].by \in alive
                        THEN reads[1].of ELSE riderInfo
        /\ reads[1].what = "info_again"
    BY <1>2, <1>7 DEF SetRider
  <2>2. CASE i = 1
    <3>1. Len(reads) = 1
      BY <1>5, <2>1, <2>2
    <3>2. reads' = << >>
      BY <1>2, <2>1, <3>1, EmptySeq
    <3>3. riderInfo' = user
      BY <1>3, <1>4, <1>5, <2>1, <2>2
    <3>4. QED
      BY <3>2, <3>3
  <2>3. CASE i # 1
    <3> DEFINE k == i - 1
               n == Len(reads')
    <3>1. /\ k \in 1..n /\ k + 1 = i /\ reads'[k] = reads[i] /\ n = Len(reads) - 1
          /\ \A j \in 1..n : j + 1 \in 1..Len(reads) /\ reads'[j] = reads[j + 1]
      <4>1. /\ n = Len(reads) - 1
            /\ \A j \in 1..n : j + 1 \in 1..Len(reads) /\ reads'[j] = reads[j + 1]
            /\ \A j \in 1..Len(reads) : j = 1 \/ (j - 1 \in 1..n /\ reads'[j - 1] = reads[j])
        BY <1>2, <2>1
      <4>2. k \in 1..n /\ reads'[k] = reads[i]
        BY <2>3, <4>1
      <4>3. k + 1 = i
        BY <1>2
      <4>4. QED
        BY <4>1, <4>2, <4>3
    <3>2. ASSUME NEW j \in 1..n, j > k PROVE reads'[j].what = "info_again"
      <4>1. j + 1 \in 1..Len(reads) /\ j + 1 > i /\ reads'[j] = reads[j + 1]
        BY <3>1, <3>2
      <4>2. QED
        BY <1>5, <4>1
    <3>3. ASSUME reads'[k].what = "info_again"
          PROVE  k = n /\ \A j \in 1..n : reads'[j].what = "info_again"
      <4>1. i = Len(reads) /\ \A j \in 1..Len(reads) : reads[j].what = "info_again"
        BY <1>5, <3>1, <3>3
      <4>2. QED
        BY <1>2, <3>1, <4>1
    <3>4. reads'[k].of = user' /\ reads'[k].by = opened'
      BY <1>1, <1>5, <3>1
    <3>5. QED
      BY <3>1, <3>2, <3>3, <3>4 DEF ReadUnderWay
  <2>4. QED
    BY <2>2, <2>3
<1>8. QED
  BY <1>6, <1>7

LEMMA InfoOthers ==
    ASSUME InfoInv, ReadFails \/ TokenAnswered \/ TokenFails \/ TokenNull \/ TokenRefreshed \/ Apply
    PROVE  InfoInv'
<1>1. CASE ReadFails \/ TokenFails \/ TokenNull
  <2>1. failed'
    BY <1>1 DEF ReadFails, TokenFails, TokenNull
  <2>2. QED
    BY <2>1 DEF InfoInv
<1>2. CASE TokenAnswered \/ TokenRefreshed \/ Apply
  <2>1. UNCHANGED <<user, screen, opened, alive, riderInfo, reads, complete, failed>>
    BY <1>2 DEF TokenAnswered, TokenRefreshed, Apply, login, profile
  <2>2. QED
    BY <2>1 DEF InfoInv, ReadUnderWay
<1>3. QED
  BY <1>1, <1>2

LEMMA InfoNext == SessionInv /\ InfoInv /\ [Next]_vars => InfoInv'
BY InfoPages, InfoAnswers, InfoOthers DEF Next

-----------------------------------------------------------------------------
(* Theorems                                                                *)

\* The state has its types in every reachable state, for any riders, pages, tokens
\* and faults: no write is addressed to nobody, and no read is of nobody.
THEOREM SessionTypeCorrect == Spec => []TypeOK
<1>1. SessionInv => TypeOK
  BY DEF SessionInv
<1>2. QED
  BY <1>1, SessionInit, SessionNext, PTL DEF Spec

\* Whoever used the process before, once a home page has its answers the token of
\* the device is in the record of its rider, unless a call failed or the token has
\* changed since the page was built.
THEOREM TokenIsCurrent == Spec => []TokenReaches
<1>1. SessionInv => TokenReaches
  <2>1. SUFFICES ASSUME SessionInv, screen = "home", requests = << >>, outbox = << >>,
                        ~failed, seen = device
                 PROVE  token[user] = device
    BY DEF TokenReaches
  <2>2. Len(requests) = 0 /\ Len(outbox) = 0
    BY <2>1
  <2>3. WillHave(user)
    BY <2>1, <2>2 DEF SessionInv, TokenInv, PageAsked
  <2>4. QED
    BY <2>2, <2>3 DEF WillHave
<1>2. QED
  BY <1>1, SessionInit, SessionNext, PTL DEF Spec

\* Once a home page has its answers, the provider holds its rider, if the record of
\* the rider has car details and no read failed.
THEOREM InfoIsCurrent == Spec => []InfoIsUsers
<1>1. InfoInv => InfoIsUsers
  <2>1. SUFFICES ASSUME InfoInv, screen = "home", reads = << >>, user \in complete, ~failed
                 PROVE  riderInfo = user
    BY DEF InfoIsUsers
  <2>2. ~ReadUnderWay
    BY <2>1 DEF ReadUnderWay
  <2>3. QED
    BY <2>1, <2>2 DEF InfoInv
<1>2. Init => InfoInv
  BY DEF Init, InfoInv
<1>3. QED
  BY <1>1, <1>2, SessionInit, SessionNext, InfoNext, PTL DEF Spec
=============================================================================
