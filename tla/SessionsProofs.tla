--------------------------- MODULE SessionsProofs ---------------------------
(***************************************************************************)
(* Admin tokens, guest codes and user tokens for every table of keys, all  *)
(* lifetimes and any number of codes, sleeping tasks, tokens and restarts. *)
(*                                                                         *)
(* Not all properties are inductive.  AdminSessionBounded needs to         *)
(* know what the signer put into a token (TokensHonest), because the token *)
(* is presented long after it was signed.  EarlyOnlyIfRepeated and         *)
(* CodeHasTimer need the task of the latest draw, not just any task, to be *)
(* asleep (LatestTimerSleeps): tasks of earlier draws survive a redemption *)
(* or a wipe and may wake at any moment.                                   *)
(***************************************************************************)
EXTENDS Sessions, TLAPS

\* The constants that arithmetic is done with are natural numbers.
LEMMA ConstantsAreNat ==
  /\ MaxTime \in Nat /\ ChallengeLife \in Nat /\ AdminLife \in Nat /\ UserLife \in Nat
  /\ CodeLife \in Nat /\ Tolerance \in Nat /\ MaxTokens \in Nat /\ MaxBoots \in Nat
  BY SessionsAssumption

\* A server that has just started satisfies the inductive invariant.
LEMMA InitIInv == Init => IInv
  BY ConstantsAreNat
     DEF Init, CodeSet!Init, IInv, TypeOK, TokensHonest, LatestTimerSleeps, CodesInvited,
         SingleUse, NoUninvitedGuest

\* A handler that issues one well-formed token and touches no code keeps the
\* inductive invariant.
LEMMA IssueKeeps ==
  ASSUME IInv, NEW tok, tokens' = tokens \cup {tok}, UNCHANGED <<codeVars, boots, history>>,
         tok.kind \in {"challenge", "admin"}, tok.sub \in Ids, tok.perms \subseteq Permissions,
         tok.exp \in Nat, tok.since \in 0..now, tok.boot = boots,
         tok.kind = "challenge" => tok.exp <= tok.since + ChallengeLife,
         tok.kind = "admin" => /\ tok.perms = Perms[tok.sub]
                               /\ tok.exp <= tok.since + ChallengeLife + Tolerance + AdminLife
  PROVE  IInv'
<1>1. TypeOK'
  BY DEF IInv, TypeOK, TokensHonest, codeVars, history
<1>2. TokensHonest'
  BY DEF IInv, TokensHonest, codeVars, history
<1>3. NoUninvitedGuest'
  BY DEF IInv, NoUninvitedGuest, codeVars, history
<1>4. LatestTimerSleeps' /\ CodesInvited' /\ SingleUse'
  BY DEF IInv, LatestTimerSleeps, CodesInvited, SingleUse, codeVars, history
<1> QED BY <1>1, <1>2, <1>3, <1>4 DEF IInv

\* Every operation keeps the inductive invariant.
LEMMA NextIInv == IInv /\ [Next]_vars => IInv'
<1> SUFFICES ASSUME IInv, [Next]_vars PROVE IInv'
  OBVIOUS
<1> USE ConstantsAreNat
<1>1. ASSUME NEW id \in Ids, InitiateChallenge(id) PROVE IInv'
  <2> DEFINE tok == Token("challenge", id, {}, ChallengeLife, now)
  <2>1. tokens' = tokens \cup {tok} /\ UNCHANGED <<codeVars, boots, history>>
    BY <1>1 DEF InitiateChallenge, Issue
  <2>2. /\ tok.kind = "challenge" /\ tok.sub = id /\ tok.perms = {}
        /\ tok.exp = now + ChallengeLife /\ tok.since = now /\ tok.boot = boots
    BY DEF Token
  <2>3. now \in Nat /\ now \in 0..now
    BY DEF IInv, TypeOK
  <2> HIDE DEF tok
  <2> QED BY <2>1, <2>2, <2>3, IssueKeeps
<1>2. ASSUME NEW ch \in tokens, NEW signer \in Ids, FinishChallenge(ch, signer) PROVE IInv'
  <2> DEFINE tok == Token("admin", ch.sub, KeyPerms(ch.sub), AdminLife, ch.since)
  <2>1. tokens' = tokens \cup {tok} /\ UNCHANGED <<codeVars, boots, history>>
    BY <1>2 DEF FinishChallenge, Issue
  <2>2. /\ tok.kind = "admin" /\ tok.sub = ch.sub /\ tok.perms = Perms[ch.sub]
        /\ tok.exp = now + AdminLife /\ tok.since = ch.since /\ tok.boot = boots
    BY DEF Token, KeyPerms
  <2>3. /\ ch.sub \in Ids /\ ch.since \in 0..now /\ now \in Nat /\ ch.exp \in Nat
        /\ now <= ch.exp + Tolerance /\ ch.exp <= ch.since + ChallengeLife
    BY <1>2 DEF FinishChallenge, Accepts, IInv, TypeOK, TokensHonest
  <2>4. now + AdminLife <= ch.since + ChallengeLife + Tolerance + AdminLife
    BY <2>3
  <2>5. Perms[ch.sub] \subseteq Permissions
    BY <2>3, SessionsAssumption
  <2> HIDE DEF tok
  <2>6. now + AdminLife \in Nat
    BY <2>3
  <2> QED BY <2>1, <2>2, <2>3, <2>4, <2>5, <2>6, IssueKeeps
<1>3. ASSUME NEW tok \in tokens, NEW c \in Codes, GenerateCode(tok, c) PROVE IInv'
  <2>1. PICK i \in TimerIds :
          /\ set' = set \cup {c}
          /\ timers' = timers \cup {[id |-> i, val |-> c, at |-> now + CodeLife]}
          /\ UNCHANGED now
    BY <1>3 DEF GenerateCode, CodeSet!InsertTemp, CodeSet!FreeIds
  <2>2. /\ now + CodeLife <= MaxTime
        /\ generated' = [generated EXCEPT ![c] = @ + 1]
        /\ born' = [born EXCEPT ![c] = now]
        /\ inviters' = [inviters EXCEPT ![c] = @ \cup {tok.sub}]
        /\ UNCHANGED <<boots, tokens, redeemed>>
    BY <1>3 DEF GenerateCode
  <2>3. tok.sub \in Ids /\ "can_invite" \in Perms[tok.sub]
    BY <1>3 DEF GenerateCode, Accepts, MayInvite, IInv, TypeOK, TokensHonest
  <2>4. TypeOK'
    BY <2>1, <2>2, <2>3 DEF IInv, TypeOK
  <2>5. TokensHonest'
    BY <2>1, <2>2 DEF IInv, TokensHonest
  <2>6. LatestTimerSleeps'
    <3> SUFFICES ASSUME NEW d \in set'
                 PROVE  \E t \in timers' : t.val = d /\ t.at = born'[d] + CodeLife
      BY DEF LatestTimerSleeps
    <3>1. CASE d = c
      <4>1. born'[c] = now
        BY <2>2 DEF IInv, TypeOK
      <4> DEFINE t == [id |-> i, val |-> c, at |-> now + CodeLife]
      <4>2. t \in timers' /\ t.val = c /\ t.at = now + CodeLife
        BY <2>1
      <4> QED BY <3>1, <4>1, <4>2
    <3>2. CASE d # c
      <4>1. d \in set /\ born'[d] = born[d]
        BY <2>1, <2>2, <3>2 DEF IInv, TypeOK
      <4> QED BY <2>1, <4>1 DEF IInv, LatestTimerSleeps
    <3> QED BY <3>1, <3>2
  <2>7. CodesInvited'
    BY <2>1, <2>2 DEF IInv, TypeOK, CodesInvited
  <2>8. SingleUse'
    BY <2>1, <2>2 DEF IInv, TypeOK, SingleUse
  <2>9. NoUninvitedGuest'
    BY <2>1, <2>2, <2>3 DEF IInv, TypeOK, NoUninvitedGuest
  <2> QED BY <2>4, <2>5, <2>6, <2>7, <2>8, <2>9 DEF IInv
<1>4. ASSUME NEW tok \in tokens, WipeCodes(tok) PROVE IInv'
  BY <1>4 DEF WipeCodes, CodeSet!Wipe, history, IInv, TypeOK, TokensHonest,
              LatestTimerSleeps, CodesInvited, SingleUse, NoUninvitedGuest
<1>5. ASSUME NEW c \in Codes, RedeemCode(c) PROVE IInv'
  <2> DEFINE tok == Token("user", c, {}, UserLife, now)
  <2>1. /\ c \in set /\ set' = set \ {c} /\ UNCHANGED <<timers, now>>
        /\ tokens' = tokens \cup {tok}
        /\ redeemed' = [redeemed EXCEPT ![c] = @ + 1]
        /\ UNCHANGED <<boots, generated, born, inviters>>
    BY <1>5 DEF RedeemCode, CodeSet!Remove, CodeSet!Without, Issue
  <2>2. /\ tok.kind = "user" /\ tok.sub = c /\ tok.perms = {}
        /\ tok.exp = now + UserLife /\ tok.since = now /\ tok.boot = boots
    BY DEF Token
  <2> HIDE DEF tok
  <2>3. TypeOK'
    BY <2>1, <2>2 DEF IInv, TypeOK, TokensHonest
  <2>4. TokensHonest'
    BY <2>1, <2>2 DEF IInv, TokensHonest
  <2>5. LatestTimerSleeps' /\ CodesInvited'
    BY <2>1 DEF IInv, LatestTimerSleeps, CodesInvited
  <2>6. SingleUse'
    BY <2>1 DEF IInv, TypeOK, SingleUse
  <2>7. NoUninvitedGuest'
    BY <2>1, <2>2 DEF IInv, CodesInvited, NoUninvitedGuest
  <2> QED BY <2>3, <2>4, <2>5, <2>6, <2>7 DEF IInv
<1>6. ASSUME NEW t \in timers, ExpireCode(t) PROVE IInv'
  <2>1. /\ set' = set \ {t.val} /\ timers' = timers \ {t} /\ UNCHANGED now
        /\ UNCHANGED <<boots, tokens, history>>
    BY <1>6 DEF ExpireCode, CodeSet!Expire
  <2>2. TypeOK' /\ TokensHonest' /\ CodesInvited' /\ NoUninvitedGuest'
    BY <2>1 DEF IInv, TypeOK, TokensHonest, CodesInvited, NoUninvitedGuest, history
  <2>3. SingleUse'
    BY <2>1 DEF IInv, TypeOK, SingleUse, history
  <2>4. LatestTimerSleeps'
    BY <2>1 DEF IInv, LatestTimerSleeps, history
  <2> QED BY <2>2, <2>3, <2>4 DEF IInv
<1>7. ASSUME Tick PROVE IInv'
  BY <1>7 DEF Tick, CodeSet!Tick, history, IInv, TypeOK, TokensHonest,
              LatestTimerSleeps, CodesInvited, SingleUse, NoUninvitedGuest
<1>8. ASSUME Restart PROVE IInv'
  BY <1>8 DEF Restart, CodeSet!Discard, history, IInv, TypeOK, TokensHonest,
              LatestTimerSleeps, CodesInvited, SingleUse, NoUninvitedGuest
<1>9. ASSUME UNCHANGED vars PROVE IInv'
  BY <1>9 DEF vars, codeVars, history, IInv, TypeOK, TokensHonest,
              LatestTimerSleeps, CodesInvited, SingleUse, NoUninvitedGuest
<1> QED
  BY <1>1, <1>2, <1>3, <1>4, <1>5, <1>6, <1>7, <1>8, <1>9 DEF Next

\* The inductive invariant holds for every table of keys, all lifetimes and all
\* bounds: in particular every value stays in its range.
THEOREM SpecIInv == Spec => []IInv
  BY InitIInv, NextIInv, PTL DEF Spec

\* For every lifetime and every number of tasks, a code that can be redeemed has a
\* sleeping task of insert_temp that removes it in time, over repeated draws,
\* redemptions and wipes.
THEOREM SpecCodeHasTimer == Spec => []CodeHasTimer
<1>1. IInv => CodeHasTimer
  BY ConstantsAreNat DEF IInv, TypeOK, LatestTimerSleeps, CodeHasTimer
<1> QED BY SpecIInv, <1>1, PTL

\* redeem_code issues no more user tokens for a number than generate_code drew it.
THEOREM SpecSingleUse == Spec => []SingleUse
<1>1. IInv => SingleUse
  BY DEF IInv
<1> QED BY SpecIInv, <1>1, PTL

\* For every table of admin_auth!, a user token exists only for a code that an
\* admin with can_invite drew.
THEOREM SpecNoUninvitedGuest == Spec => []NoUninvitedGuest
<1>1. IInv => NoUninvitedGuest
  BY DEF IInv
<1> QED BY SpecIInv, <1>1, PTL

\* For all lifetimes and every tolerance, the time an admin session can last is
\* bounded by them, however often its challenge is presented.
THEOREM SpecAdminSessionBounded == Spec => []AdminSessionBounded
<1>1. IInv => AdminSessionBounded
  BY ConstantsAreNat DEF IInv, TypeOK, TokensHonest, AdminSessionBounded, Accepts
<1> QED BY SpecIInv, <1>1, PTL

\* For every lifetime, only a second task for the same number takes a code away
\* before its time.
THEOREM SpecEarlyOnlyIfRepeated == Spec => EarlyOnlyIfRepeated
<1> DEFINE Early ==
      \A t \in timers \ timers' :
          boots' = boots /\ t.val \in set =>
             \/ now >= born[t.val] + CodeLife
             \/ \E u \in timers : u # t /\ u.val = t.val
<1>1. IInv /\ [Next]_vars => [Early]_vars
  <2> SUFFICES ASSUME IInv, Next, NEW t \in timers \ timers', boots' = boots, t.val \in set
               PROVE  \/ now >= born[t.val] + CodeLife
                      \/ \E u \in timers : u # t /\ u.val = t.val
    OBVIOUS
  <2>1. t.at <= now
    BY DEF Next, InitiateChallenge, FinishChallenge, GenerateCode, WipeCodes, RedeemCode,
           ExpireCode, Tick, Restart, CodeSet!InsertTemp, CodeSet!Wipe, CodeSet!Remove,
           CodeSet!Expire, CodeSet!Tick, codeVars, IInv, TypeOK
  <2>2. PICK u \in timers : u.val = t.val /\ u.at = born[t.val] + CodeLife
    BY DEF IInv, LatestTimerSleeps
  <2> QED BY <2>1, <2>2
<1> QED BY SpecIInv, <1>1, PTL DEF Spec, EarlyOnlyIfRepeated
=============================================================================
