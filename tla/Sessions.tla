------------------------------ MODULE Sessions ------------------------------
(***************************************************************************)
(* Who may do what in ctf_archive: auth.rs, guest.rs, jwt.rs and the part  *)
(* of state.rs they share.                                                 *)
(*                                                                         *)
(* A holder of a signing key turns a challenge into an admin token, an     *)
(* admin who may invite draws a guest code, and whoever redeems the code   *)
(* gets a user token.  The server remembers only the codes: a token is a   *)
(* claim signed with one of three keys that live as long as the process,   *)
(* so every token ever issued stays in the hands of clients and can be     *)
(* presented at any time.  A request that is refused changes nothing and   *)
(* is not an action.                                                       *)
(*                                                                         *)
(* Signatures and MACs are perfect: a token verifies only under the key of *)
(* its kind and of the process that made it.  getrandom may repeat a code. *)
(***************************************************************************)
EXTENDS Naturals, FiniteSets

CONSTANTS Codes,          \* the values of GuestCode
          TimerIds, MaxTime,
          Ids, Perms,     \* the table of admin_auth!: key ids, permissions
          ChallengeLife,  \* the lifetimes: 10 s, 30 min, 6 h, 30 min
          AdminLife, UserLife, CodeLife,
          Tolerance,      \* clock tolerance of verify_token(.., None)
          MaxTokens,      \* bound on the tokens issued
          MaxBoots        \* bound on the starts of the server

Permissions == {"can_docker", "can_create", "can_invite", "can_host_demo"}

ASSUME SessionsAssumption ==
    /\ Perms \in [Ids -> SUBSET Permissions]
    /\ {MaxTime, ChallengeLife, AdminLife, UserLife, CodeLife, Tolerance,
        MaxTokens, MaxBoots} \subseteq Nat

VARIABLES set, timers, now,   \* state.codes, see InMemorySet
          boots,              \* how often the server was started; names its keys
          tokens,             \* every token issued
          generated, redeemed, born, inviters \* history, per code

CodeSet == INSTANCE InMemorySet WITH Vals <- Codes

codeVars == <<set, timers, now>>
history  == <<generated, redeemed, born, inviters>>
vars     == <<codeVars, boots, tokens, history>>

\* Claims::with_custom_claims, signed with the key of the kind.  since is when
\* the login (or the redemption) that led to the token began.
TokenBackwards(kind, sub, perms, life, since) ==         \* seeded fault: lifetime subtracted
    [kind |-> kind, sub |-> sub, perms |-> perms, exp |-> now - life,
     boot |-> boots, since |-> since]

Token(kind, sub, perms, life, since) ==
    [kind |-> kind, sub |-> sub, perms |-> perms, exp |-> now + life,
     boot |-> boots, since |-> since]

\* Seeded fault: the expiry is not looked at.
AcceptsStale(tok, kind) == tok \in tokens /\ tok.kind = kind /\ tok.boot = boots

\* from_request_parts: the token verifies under the current key of its kind.
Accepts(tok, kind) ==
    /\ tok \in tokens
    /\ tok.kind = kind
    /\ tok.boot = boots
    /\ now <= tok.exp + Tolerance

Issue(tok) ==
    /\ Cardinality(tokens) < MaxTokens
    /\ tokens' = tokens \cup {tok}

Init ==
    /\ CodeSet!Init
    /\ boots = 1
    /\ tokens = {}
    /\ generated = [c \in Codes |-> 0]
    /\ redeemed = [c \in Codes |-> 0]
    /\ born = [c \in Codes |-> 0]
    /\ inviters = [c \in Codes |-> {}]

\* initiate_challenge: only for a key id of the table (else NOT_FOUND).
InitiateChallenge(id) ==
    /\ id \in Ids
    /\ Issue(Token("challenge", id, {}, ChallengeLife, now))
    /\ UNCHANGED <<codeVars, boots, history>>

\* key_perms: the row of the table.
KeyPerms(id) == Perms[id]

\* finish_challenge, with the challenge signed by the key of id signer; the same
\* challenge may be presented again while it is accepted.
FinishChallenge(tok, signer) ==
    /\ Accepts(tok, "challenge")
    /\ signer = tok.sub
    /\ Issue(Token("admin", tok.sub, KeyPerms(tok.sub), AdminLife, tok.since))
    /\ UNCHANGED <<codeVars, boots, history>>

\* Seeded fault: the permission is not checked.
MayInviteAnyone(tok) == TRUE
MayInvite(tok) == "can_invite" \in tok.perms

\* generate_code.  (The bound on the clock leaves every code time to expire.)
GenerateCode(tok, c) ==
    /\ Accepts(tok, "admin")
    /\ MayInvite(tok)
    /\ now + CodeLife <= MaxTime
    /\ CodeSet!InsertTemp(c, CodeLife)
    /\ generated' = [generated EXCEPT ![c] = @ + 1]
    /\ born' = [born EXCEPT ![c] = now]
    /\ inviters' = [inviters EXCEPT ![c] = @ \cup {tok.sub}]
    /\ UNCHANGED <<boots, tokens, redeemed>>

\* wipe_codes: any admin.
WipeCodes(tok) ==
    /\ Accepts(tok, "admin")
    /\ CodeSet!Wipe
    /\ UNCHANGED <<boots, tokens, history>>

\* redeem_code: the code is removed and, if it was there, a user token returned.
RedeemCode(c) ==
    /\ c \in set
    /\ CodeSet!Remove(c)
    /\ Issue(Token("user", c, {}, UserLife, now))
    /\ redeemed' = [redeemed EXCEPT ![c] = @ + 1]
    /\ UNCHANGED <<boots, generated, born, inviters>>

ExpireCode(t) ==
    /\ CodeSet!Expire(t)
    /\ UNCHANGED <<boots, tokens, history>>

Tick ==
    /\ CodeSet!Tick
    /\ UNCHANGED <<boots, tokens, history>>

\* The server stops and starts again: new keys, no codes (InternalState::new).
Restart ==
    /\ boots < MaxBoots
    /\ boots' = boots + 1
    /\ CodeSet!Discard
    /\ UNCHANGED <<tokens, history>>

Next ==
    \/ \E id \in Ids : InitiateChallenge(id)
    \/ \E tok \in tokens :
          \/ \E signer \in Ids : FinishChallenge(tok, signer)
          \/ \E c \in Codes : GenerateCode(tok, c)
          \/ WipeCodes(tok)
    \/ \E c \in Codes : RedeemCode(c)
    \/ \E t \in timers : ExpireCode(t)
    \/ Tick
    \/ Restart

Spec == Init /\ [][Next]_vars

\* Time passes and tokio wakes the tasks whose sleep is over.
FairSpec ==
    /\ Spec
    /\ WF_vars(Tick)
    /\ WF_vars(\E t \in timers : ExpireCode(t))
-----------------------------------------------------------------------------
\* Every variable stays in its range.
TypeOK ==
    /\ set \subseteq Codes
    /\ timers \subseteq [id : TimerIds, val : Codes, at : 0..MaxTime]
    /\ now \in 0..MaxTime
    /\ boots \in Nat
    /\ \A tok \in tokens :
          /\ tok.kind \in {"challenge", "admin", "user"}
          /\ tok.sub \in IF tok.kind = "user" THEN Codes ELSE Ids
          /\ tok.perms \subseteq Permissions
          /\ tok.exp \in Nat /\ tok.since \in 0..now /\ tok.boot \in 1..boots
    /\ generated \in [Codes -> Nat] /\ redeemed \in [Codes -> Nat]
    /\ born \in [Codes -> 0..MaxTime]
    /\ inviters \in [Codes -> SUBSET Ids]

\* A code that can be redeemed has a sleeping task that will remove it no later
\* than 30 minutes after it was drawn, also if the number was drawn before,
\* redeemed or wiped meanwhile: no code stays for ever.
CodeHasTimer ==
    \A c \in set : \E t \in timers : t.val = c /\ t.at <= born[c] + CodeLife

\* A drawn code is good for one user token, over wipes, expiries and restarts.
SingleUse ==
    \A c \in Codes : redeemed[c] + (IF c \in set THEN 1 ELSE 0) <= generated[c]

\* Behind every user token stands an admin whom the table allows to invite.
NoUninvitedGuest ==
    /\ \A tok \in tokens : tok.kind = "user" => inviters[tok.sub] # {}
    /\ \A c \in Codes : \A id \in inviters[c] : "can_invite" \in Perms[id]

\* An admin token is no longer accepted a fixed time after the challenge it
\* began with: tokens do not renew themselves.
AdminSessionBounded ==
    \A tok \in tokens : Accepts(tok, "admin") =>
        now <= tok.since + ChallengeLife + AdminLife + 2 * Tolerance

\* A waking task takes a code away before its 30 minutes are over only if the
\* same number was drawn again while that task slept ("this is only probably
\* correct").
EarlyOnlyIfRepeated ==
    [][\A t \in timers \ timers' :
          boots' = boots /\ t.val \in set =>
             \/ now >= born[t.val] + CodeLife
             \/ \E u \in timers : u # t /\ u.val = t.val]_vars

(* The inductive invariant behind the theorems of SessionsProofs.          *)

\* The task of a code's latest draw is still asleep while the code can be
\* redeemed; earlier draws of the same number may have left tasks of their own.
LatestTimerSleeps ==
    \A c \in set : \E t \in timers : t.val = c /\ t.at = born[c] + CodeLife

\* A code that can be redeemed was drawn by somebody.
CodesInvited == \A c \in set : inviters[c] # {}

\* What the signer of a token put into it: the permissions are a row of the table,
\* and the expiry is a lifetime after a moment at which the signer was entitled.
TokensHonest ==
    /\ 1 <= boots
    /\ \A tok \in tokens :
          /\ tok.kind = "challenge" => tok.exp <= tok.since + ChallengeLife
          /\ tok.kind = "admin" =>
                /\ tok.perms = Perms[tok.sub]
                /\ tok.exp <= tok.since + ChallengeLife + Tolerance + AdminLife

\* The types, the parts above and the two properties that need them.
IInv ==
    /\ TypeOK /\ TokensHonest
    /\ LatestTimerSleeps /\ CodesInvited
    /\ SingleUse /\ NoUninvitedGuest
-----------------------------------------------------------------------------
\* Every code goes away, redeemed or not.
CodesExpire == \A c \in Codes : c \in set ~> c \notin set
=============================================================================
