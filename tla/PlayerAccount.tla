---------------------------- MODULE PlayerAccount ----------------------------
(***************************************************************************)
(* What the services of login and of users keep of a player: the code that *)
(* is sent to a number and the document of the login, the user with its    *)
(* name, build, referral, card and free games.  Every handler looks at a   *)
(* document first and writes it later, and no two of them know each other. *)
(*                                                                         *)
(* slips names what the code lets through when two calls cross or when one *)
(* dies halfway.  Device, address and attached ids are left out, as is the *)
(* wallet behind a referral (modules Wallet and WalletBatch).              *)
(***************************************************************************)
EXTENDS Naturals, FiniteSetsExt

CONSTANTS
  Numbers,            \* mobile numbers
  Registered,         \* at the start: functions from the numbers that have a user to its name
  Sent,               \* the code that was sent to a number before, or 0
  MaxRetries,         \* codes that may be sent without one being used
  FailureLimit,       \* wrong answers to one code
  KycLimit,           \* users that may share a card
  FreeLimit,          \* free games of a professional in a day
  LastDay, MaxCalls   \* bounds

VARIABLES auth, users, counter, bonuses, games, opened, jobs, day, started, slips

vars == <<auth, users, counter, bonuses, games, opened, jobs, day, started, slips>>

Builds == {"playStore", "website"}
Cards == {"card"}
Codes == 1..MaxCalls + Cardinality(Numbers)   \* one for each number and for each call
NoAuth == [code |-> 0, used |-> FALSE, expired |-> FALSE, sent |-> 0, failed |-> 0, build |-> "none"]
NoUser == [name |-> 0, build |-> "none", canBeReferred |-> TRUE, referredBy |-> "none", referrals |-> 0,
           hadWebsite |-> FALSE, card |-> "none", pro |-> FALSE, played |-> 0, resetOn |-> 0]
NoJob == [at |-> "none", who |-> "none", auth |-> NoAuth, build |-> "none", answer |-> 0, read |-> 0, other |-> "none"]
JobIds == 1..2                 \* bound: calls under way

User(name, build) == [NoUser EXCEPT !.name = name, !.build = build, !.hadWebsite = build = "website"]
Init ==
  /\ auth = [m \in Numbers |-> IF Sent[m] = 0 THEN NoAuth
                               ELSE [NoAuth EXCEPT !.code = Sent[m], !.sent = 1, !.build = "playStore"]]
  /\ \E names \in Registered :
       /\ users = [m \in Numbers |-> IF m \in DOMAIN names THEN User(names[m], "playStore") ELSE NoUser]
       /\ counter = Cardinality(DOMAIN names)
  /\ bonuses = [m \in Numbers |-> 0] /\ games = [m \in Numbers |-> 0]
  /\ opened = [c \in Codes |-> 0]
  /\ jobs = [j \in JobIds |-> NoJob]
  /\ day = 1 /\ started = 0 /\ slips = {}

Logins == <<auth, opened>>
Rest == <<bonuses, games, day>>
Count == started < MaxCalls /\ started' = started + 1
Begin(j, job) ==
  /\ jobs[j] = NoJob /\ (\A i \in JobIds : i < j => jobs[i] # NoJob)
  /\ Count
  /\ jobs' = [jobs EXCEPT ![j] = job]
Goto(j, s) == jobs' = [jobs EXCEPT ![j].at = s]
End(j) == jobs' = [jobs EXCEPT ![j] = NoJob]
Slip(what, happened) == slips' = IF happened THEN slips \union {what} ELSE slips
Crosses(j, stages, m) == \E i \in JobIds \ {j} : jobs[i].at \in stages /\ jobs[i].who = m
-----------------------------------------------------------------------------
(* requestOtp: a code that is still good is sent again, as it expires.      *)
RequestOtp(j, m, build) ==
  LET old == auth[m]
      isOldOtpAvailable == old.code > 0 /\ ~old.used /\ ~old.expired
  IN  /\ ~(old.build = "website" /\ build = "playStore")
      /\ old.sent <= MaxRetries
      /\ Begin(j, [NoJob EXCEPT !.at = "store code", !.who = m, !.build = build, !.read = old.code,
           !.auth = [code |-> IF isOldOtpAvailable THEN old.code ELSE started' + Cardinality(Numbers),
                     used |-> FALSE, expired |-> FALSE, sent |-> old.sent + 1, failed |-> 0, build |-> build]])
      /\ Slip("login crossed", Crosses(j, {"store code", "store answer"}, m))
      /\ UNCHANGED <<Logins, users, counter, Rest>>

(* A copy of the document is as old as its code.                            *)
Copy(m, copy) == [copy EXCEPT !.expired = auth[m].code = copy.code /\ auth[m].expired]

(* #storeOtpCode: the document is written as a whole; a second document of  *)
(* the number is refused.                                                   *)
StoreOtpCode(j) ==
  LET m == jobs[j].who
      refused == jobs[j].read = 0 /\ auth[m].code > 0
  IN  /\ jobs[j].at = "store code"
      /\ auth' = IF refused THEN auth ELSE [auth EXCEPT ![m] = Copy(m, jobs[j].auth)]
      /\ End(j)
      /\ UNCHANGED <<users, counter, opened, Rest, started, slips>>

CodeExpires(m) ==
  /\ auth[m].code > 0 /\ ~auth[m].used /\ ~auth[m].expired
  /\ auth' = [auth EXCEPT ![m].expired = TRUE]
  /\ UNCHANGED <<users, counter, opened, Rest, jobs, started, slips>>

(* verifyAndUseOtp looks at the document, and #verifyOtp writes back what   *)
(* it has found.  That a code has expired is not looked at.                 *)
VerifyOtp(j, m, right) ==
  /\ auth[m].code > 0 /\ ~auth[m].used
  /\ auth[m].failed < FailureLimit
  /\ Begin(j, [NoJob EXCEPT !.at = "store answer", !.who = m, !.auth = auth[m],
                            !.answer = IF right THEN auth[m].code ELSE 0, !.build = auth[m].build])
  /\ Slip("login crossed", Crosses(j, {"store code", "store answer"}, m))
  /\ UNCHANGED <<Logins, users, counter, Rest>>

StoreAnswer(j) ==
  LET m == jobs[j].who
      seen == jobs[j].auth
      right == jobs[j].answer = seen.code
      otp == IF right THEN [seen EXCEPT !.sent = 0, !.used = TRUE] ELSE [seen EXCEPT !.failed = @ + 1]
  IN  /\ jobs[j].at = "store answer"
      /\ auth' = [auth EXCEPT ![m] = [Copy(m, otp) EXCEPT !.build = auth[m].build]]
      /\ opened' = IF right THEN [opened EXCEPT ![seen.code] = @ + 1] ELSE opened
      /\ IF right THEN Goto(j, "find user") ELSE End(j)
      /\ UNCHANGED <<users, counter, Rest, started, slips>>
-----------------------------------------------------------------------------
(* createOrUpdateUser: nobody goes back from the website's build.           *)
FindUser(j) ==
  LET m == jobs[j].who
      user == users[m]
  IN  /\ jobs[j].at = "find user"
      /\ IF user.name = 0 THEN Goto(j, "read counter")
         ELSE IF user.build = "website" /\ jobs[j].build = "playStore" THEN End(j)
         ELSE Goto(j, "store build")
      /\ Slip("build crossed", Crosses(j, {"store build"}, m))
      /\ UNCHANGED <<Logins, users, counter, Rest, started>>

StoreBuild(j) ==
  /\ jobs[j].at = "store build"
  /\ users' = [users EXCEPT ![jobs[j].who].build = jobs[j].build,
                            ![jobs[j].who].hadWebsite = @ \/ jobs[j].build = "website"]
  /\ End(j)
  /\ UNCHANGED <<Logins, counter, Rest, started, slips>>

(* #getNextUserCounter: the counter is set to what follows the number read. *)
ReadCounter(j) ==
  /\ jobs[j].at = "read counter"
  /\ jobs' = [jobs EXCEPT ![j].at = "store counter", ![j].read = counter]
  /\ Slip("counter crossed", \E i \in JobIds \ {j} : jobs[i].at \in {"store counter", "save user"})
  /\ UNCHANGED <<Logins, users, counter, Rest, started>>

StoreCounter(j) ==
  /\ jobs[j].at = "store counter"
  /\ counter' = jobs[j].read + 1
  /\ Goto(j, "save user")
  /\ UNCHANGED <<Logins, users, Rest, started, slips>>

(* Numbers and names are unique: the second of two users is refused.        *)
SaveUser(j) ==
  LET m == jobs[j].who
      name == jobs[j].read + 1
      unique == users[m].name = 0 /\ \A n \in Numbers : users[n].name # name
  IN  /\ jobs[j].at = "save user"
      /\ users' = IF unique THEN [users EXCEPT ![m] = User(name, jobs[j].build)]
                  ELSE users
      /\ End(j)
      /\ UNCHANGED <<Logins, counter, Rest, started, slips>>

(* updateUser with a build.                                                 *)
ChangeBuild(j, m, build) ==
  /\ users[m].name > 0
  /\ ~(users[m].build = "website" /\ build = "playStore")
  /\ Begin(j, [NoJob EXCEPT !.at = "store build", !.who = m, !.build = build])
  /\ Slip("build crossed", Crosses(j, {"store build"}, m))
  /\ UNCHANGED <<Logins, users, counter, Rest>>
-----------------------------------------------------------------------------
(* createReferral: the bonus goes to the player whose code was used, then   *)
(* the new player is marked, then the referral is counted.                  *)
CreateReferral(j, m, n) ==
  /\ users[m].name > 0 /\ users[n].name > 0 /\ m # n
  /\ users[m].canBeReferred
  /\ Begin(j, [NoJob EXCEPT !.at = "pay referral", !.who = m, !.other = n])
  /\ Slip("referral crossed", Crosses(j, {"pay referral", "mark referral", "count referral"}, m))
  /\ UNCHANGED <<Logins, users, counter, Rest>>

PayReferral(j) ==
  /\ jobs[j].at = "pay referral"
  /\ bonuses' = [bonuses EXCEPT ![jobs[j].who] = @ + 1]
  /\ Goto(j, "mark referral")
  /\ UNCHANGED <<Logins, users, counter, games, day, started, slips>>

MarkReferral(j) ==
  /\ jobs[j].at = "mark referral"
  /\ users' = [users EXCEPT ![jobs[j].who].canBeReferred = FALSE, ![jobs[j].who].referredBy = jobs[j].other]
  /\ Goto(j, "count referral")
  /\ UNCHANGED <<Logins, counter, Rest, started, slips>>

CountReferral(j) ==
  /\ jobs[j].at = "count referral"
  /\ users' = [users EXCEPT ![jobs[j].other].referrals = @ + 1]
  /\ End(j)
  /\ UNCHANGED <<Logins, counter, Rest, started, slips>>

SkipReferral(m) ==
  /\ users[m].name > 0 /\ users[m].canBeReferred
  /\ users' = [users EXCEPT ![m].canBeReferred = FALSE]
  /\ Count
  /\ UNCHANGED <<Logins, counter, Rest, jobs, slips>>

(* uploadKyc, or generateOtp and submitOtp: who else has the card is counted *)
(* before the service that knows cards is asked.                            *)
UploadKyc(j, m, card) ==
  /\ users[m].name > 0
  /\ Cardinality({n \in Numbers : users[n].card = card}) < KycLimit
  /\ Begin(j, [NoJob EXCEPT !.at = "store card", !.who = m, !.other = card])
  /\ Slip("card crossed", \E i \in JobIds \ {j} : jobs[i].at = "store card")
  /\ UNCHANGED <<Logins, users, counter, Rest>>

StoreCard(j) ==
  /\ jobs[j].at = "store card"
  /\ users' = [users EXCEPT ![jobs[j].who].card = jobs[j].other]
  /\ End(j)
  /\ UNCHANGED <<Logins, counter, Rest, started, slips>>
-----------------------------------------------------------------------------
(* convertToProIfEligible, once what was won is enough.                     *)
ConvertToPro(m) ==
  /\ users[m].name > 0 /\ ~users[m].pro
  /\ users' = [users EXCEPT ![m].pro = TRUE]
  /\ UNCHANGED <<Logins, counter, Rest, jobs, started, slips>>

(* availableFreeGameCount: the first look of a day sets the count back, or, *)
(* the very first, to what the history says.                                *)
AskForFreeGame(j, m) ==
  LET user == users[m]
      fresh == user.resetOn = day
  IN  /\ user.name > 0
      /\ (user.pro /\ fresh) => user.played < FreeLimit
      /\ Begin(j, [NoJob EXCEPT !.at = IF user.pro /\ ~fresh THEN "reset free games" ELSE "play free game",
                                !.who = m, !.read = IF user.resetOn = 0 THEN games[m] ELSE 0])
      /\ Slip("free game crossed", ~user.pro \/ Crosses(j, {"play free game", "reset free games"}, m))
      /\ UNCHANGED <<Logins, users, counter, Rest>>

ResetFreeGames(j) ==
  /\ jobs[j].at = "reset free games"
  /\ users' = [users EXCEPT ![jobs[j].who].played = jobs[j].read, ![jobs[j].who].resetOn = day]
  /\ IF jobs[j].read < FreeLimit THEN Goto(j, "play free game") ELSE End(j)
  /\ UNCHANGED <<Logins, counter, Rest, started, slips>>

(* updatePlayedFreeGames, when the table starts; or it never does.          *)
PlayFreeGame(j) ==
  LET m == jobs[j].who
  IN  /\ jobs[j].at = "play free game"
      /\ \/ /\ users' = [users EXCEPT ![m].played = @ + 1]
            /\ games' = [games EXCEPT ![m] = @ + 1]
         \/ UNCHANGED <<users, games>>
      /\ End(j)
      /\ UNCHANGED <<Logins, counter, bonuses, day, started, slips>>

NextDay ==
  /\ day < LastDay
  /\ day' = day + 1
  /\ games' = [m \in Numbers |-> 0]
  /\ Slip("free game crossed", \E j \in JobIds : jobs[j].at \in {"play free game", "reset free games"})
  /\ UNCHANGED <<Logins, users, counter, bonuses, jobs, started>>

Crash(j) ==
  /\ jobs[j].at \in {"mark referral", "count referral", "store counter", "save user"}
  /\ End(j)
  /\ Slip("died halfway", TRUE)
  /\ UNCHANGED <<Logins, users, counter, Rest, started>>

Next ==
  \/ \E j \in JobIds :
       \/ \E m \in Numbers :
            \/ \E b \in Builds : RequestOtp(j, m, b) \/ ChangeBuild(j, m, b)
            \/ \E right \in BOOLEAN : VerifyOtp(j, m, right)
            \/ \E n \in Numbers : CreateReferral(j, m, n)
            \/ \E card \in Cards : UploadKyc(j, m, card)
            \/ AskForFreeGame(j, m)
       \/ StoreOtpCode(j) \/ StoreAnswer(j) \/ FindUser(j) \/ StoreBuild(j)
       \/ ReadCounter(j) \/ StoreCounter(j) \/ SaveUser(j)
       \/ PayReferral(j) \/ MarkReferral(j) \/ CountReferral(j) \/ StoreCard(j)
       \/ ResetFreeGames(j) \/ PlayFreeGame(j) \/ Crash(j)
  \/ \E m \in Numbers : CodeExpires(m) \/ SkipReferral(m) \/ ConvertToPro(m)
  \/ NextDay

Spec == Init /\ [][Next]_vars
-----------------------------------------------------------------------------
TypeOK ==
  /\ \A m \in Numbers :
       /\ auth[m].code \in {0} \union Codes /\ auth[m].sent \in 0..MaxRetries + 1
       /\ auth[m].failed \in 0..FailureLimit
       /\ users[m].name \in 0..counter + 1 /\ users[m].card \in {"none"} \union Cards
  /\ counter \in Nat /\ day \in 1..LastDay /\ started \in 0..MaxCalls
  /\ slips \subseteq {"login crossed", "build crossed", "counter crossed", "referral crossed",
                     "card crossed", "free game crossed", "died halfway"}

Kept(slip, statement) == slip \in slips \/ statement

(* A code opens the account once, and its user never goes back to the build *)
(* of the play store, unless two calls for the number crossed.              *)
LoginsAreSound ==
  /\ Kept("login crossed", \A c \in Codes : opened[c] <= 1)
  /\ Kept("build crossed", \A m \in Numbers : users[m].hadWebsite => users[m].build = "website")

(* The next name is free, so that the next new player is not refused, and   *)
(* one number has one name, unless two new players crossed.                 *)
NamesAreFree == Kept("counter crossed", \A m \in Numbers : users[m].name <= counter)

(* A player brings one bonus, to the player whose referrals count it, unless *)
(* two calls crossed or one died between the three writes.                  *)
ReferralsAddUp ==
  LET underWay == {jobs[j].who : j \in {i \in JobIds : jobs[i].at \in {"mark referral", "count referral"}}}
      brought(n) == {m \in Numbers \ underWay : users[m].referredBy = n}
  IN  {"referral crossed", "died halfway"} \cap slips = {} =>
        /\ \A m \in Numbers : bonuses[m] <= 1
        /\ \A m \in Numbers \ underWay : bonuses[m] = 1 <=> users[m].referredBy # "none"
        /\ \A n \in Numbers : users[n].referrals = Cardinality(brought(n))

(* A card serves no more users than it may, and a professional plays no     *)
(* more free games in a day than the limit, unless calls crossed or a game  *)
(* was asked for before becoming one.                                       *)
LimitsHold ==
  /\ Kept("card crossed", \A c \in Cards : Cardinality({m \in Numbers : users[m].card = c}) <= KycLimit)
  /\ Kept("free game crossed", \A m \in Numbers : users[m].pro => games[m] <= FreeLimit)
=============================================================================
