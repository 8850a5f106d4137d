------------------------------ MODULE MCSwapV3 ------------------------------
(***************************************************************************)
(* Instances of SwapV3 for TLC.  For wSOL and for another mint: an account *)
(* of the payer, one of the vault, and a fee account of a third party,     *)
(* which also has a wallet.                                                *)
(***************************************************************************)
EXTENDS SwapV3

CONSTANTS payW, payT, vaultW, vaultT, feeW, feeT, alice, sa, wallet, friend

MCTokenAccounts == {payW, payT, vaultW, vaultT, feeW, feeT}
MCMintOf ==
  [a \in MCTokenAccounts |-> IF a \in {payW, vaultW, feeW} THEN "wSOL" ELSE "T"]
MCOwnerOf ==
  [a \in MCTokenAccounts |-> CASE a \in {payW, payT} -> alice
                               [] a \in {vaultW, vaultT} -> sa
                               [] OTHER -> wallet]

HalfOfTWithheld == [a \in MCTokenAccounts |-> IF MCMintOf[a] = "T" THEN 1 ELSE 0]

(* Parts of requests: the kind of swap, the fees, the trim.                *)
Swaps(srcs, dsts) ==
  {s \in [src : srcs, dst : dsts, srcSa : {None, vaultW, vaultT},
          dstSa : {None, vaultW, vaultT}] :
     /\ s.srcSa # None => MCMintOf[s.srcSa] = MCMintOf[s.src]
     /\ s.dstSa # None => MCMintOf[s.dstSa] = MCMintOf[s.dst]}

NoCommission ==
  {[rate |-> 0, platformRate |-> 0, commissionAccount |-> None, platformAccount |-> None]}
Commissions(accounts) ==
  NoCommission \cup
  {f \in [rate : {2}, platformRate : {0, 1}, commissionAccount : accounts,
          platformAccount : accounts \cup {None}] :
     (f.platformRate = 0) = (f.platformAccount = None)}

NoTrims ==
  {[trimRate |-> 0, chargeRate |-> 0, trimAccount |-> None, chargeAccount |-> None]}
Trims(accounts) ==
  {t \in [trimRate : {2}, chargeRate : {0, 2}, trimAccount : accounts,
          chargeAccount : accounts \cup {None}] :
     (t.chargeRate = 0) = (t.chargeAccount = None)}

(* All of the optional accounts that come with the vault's are given, or   *)
(* all but one.                                                            *)
AllGiven == [srcProgram |-> TRUE, dstProgram |-> TRUE, authority |-> TRUE, creators |-> TRUE]
OneMissing == {[AllGiven EXCEPT ![p] = FALSE] : p \in DOMAIN AllGiven}

Make(toB, onFrom, s, f, t, close, receiver, expected, g) ==
  [toB |-> toB, onFrom |-> onFrom, close |-> close, receiver |-> receiver,
   src |-> s.src, dst |-> s.dst, srcSa |-> s.srcSa, dstSa |-> s.dstSa,
   rate |-> f.rate, platformRate |-> f.platformRate,
   commissionAccount |-> f.commissionAccount, platformAccount |-> f.platformAccount,
   trimRate |-> t.trimRate, chargeRate |-> t.chargeRate,
   trimAccount |-> t.trimAccount, chargeAccount |-> t.chargeAccount,
   amountIn |-> 2, expectOut |-> expected, minReturn |-> 1,
   srcProgram |-> g.srcProgram, dstProgram |-> g.dstProgram,
   authority |-> g.authority, creators |-> g.creators]

Well(rs) == {r \in rs : r.chargeRate > 0 => r.receiver = None}

(* Fees, trim and charge on the wSOL that a swap gives.                    *)
OutRequests ==
  Well({Make(TRUE, FALSE, s, f, t, close, receiver, 2, g) :
          s \in {s \in Swaps({payT}, {payW}) : s.srcSa # None},
          f \in Commissions({wallet, feeW}),
          t \in NoTrims \cup Trims({wallet, feeW}),
          close \in BOOLEAN, receiver \in {None, friend},
          g \in {AllGiven}})

(* Fees on the way in or out, by both processors, in SOL or in the charged *)
(* token, with a mint that withholds.                                      *)
ChargedAccount(onFrom, s) == IF onFrom THEN s.src ELSE s.dst
FeeAccount(a) == IF MCMintOf[a] = "T" THEN feeT ELSE feeW
BothWaysRequests ==
  UNION {{Make(toB, onFrom, s, f, t, FALSE, None, 1, AllGiven) :
            f \in Commissions({wallet, FeeAccount(ChargedAccount(onFrom, s))}),
            t \in NoTrims} :
           toB \in BOOLEAN, onFrom \in BOOLEAN,
           s \in Swaps({payW, payT}, {payT, payW})}

(* A vault account for the output alone or for both sides, and one of the  *)
(* other accounts left out: in tokens or in SOL, by both processors.       *)
PartlyGivenRequests ==
  UNION {{Make(toB, FALSE, s, f, t, close, None, 1, g) :
            f \in {f \in Commissions({wallet, feeW}) : f.platformRate = 0},
            t \in NoTrims \cup (IF toB THEN {t \in Trims({wallet}) : t.chargeRate = 0}
                               ELSE {}),
            close \in (IF toB THEN BOOLEAN ELSE {FALSE})} :
           toB \in BOOLEAN, g \in OneMissing,
           s \in {s \in Swaps({payT}, {payW}) : s.dstSa # None}}

MCRequests == OutRequests \cup BothWaysRequests \cup PartlyGivenRequests

Book(user, vault, poor) ==
  [tok |-> [a \in MCTokenAccounts |-> CASE a = payW -> user [] a = payT -> 6
                                       [] a \in {vaultW, vaultT} -> vault
                                       [] OTHER -> 0],
   sol |-> [a \in {alice, sa, wallet, friend} |->
              CASE a = alice -> 5 [] a = sa -> 3 [] OTHER -> poor],
   closed |-> {}]

MCBooks == {Book(4, 3, 0), Book(0, 0, 4)}

=============================================================================
