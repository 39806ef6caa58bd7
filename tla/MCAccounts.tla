----------------------------- MODULE MCAccounts -----------------------------
(***************************************************************************)
(* Sign-in by email and sign-in through OAuth, in one run: each behaviour  *)
(* is one of the part that "focus" names, and the other, with which it     *)
(* shares no state, stays where it begins.                                 *)
(***************************************************************************)
EXTENDS EmailSignIn, OAuthSignIn, TLC

CONSTANTS requestLimit, verifyLimit

VARIABLE focus

AccountsInit ==
    /\ focus \in {"email", "oauth"}
    /\ EmailInit /\ OAuthInit
    /\ focus = "oauth" => mailed = {}

AccountsNext ==
    /\ UNCHANGED focus
    /\ \/ focus = "email" /\ EmailNext /\ UNCHANGED oauthVars
       \/ focus = "oauth" /\ OAuthNext /\ UNCHANGED emailVars

AccountsSpec == AccountsInit /\ [][AccountsNext]_<<emailVars, oauthVars, focus>>

Limits == "otp_request" :> requestLimit @@ "otp_verify" :> verifyLimit

(* Sets of the parts share their model values, so that one small group     *)
(* serves all: a permutation of the values permutes all these sets alike.  *)
Alike ==
    Permutations(Clients) \cup Permutations(Otps) \cup Permutations(Codes)
    \cup Permutations(Accounts)
=============================================================================
