------------------------------- MODULE MCMoney -------------------------------
(* Small instances of Sms and Wallet for TLC.  Both work on one balance; a *)
(* behaviour of this run is of one of the two, the other being at rest.    *)
EXTENDS Sms, Wallet

VARIABLE part

moneyVars == <<accountVars, smsVars, walletVars, part>>

Init == /\ AccountInit /\ SmsInit /\ WalletInit
        /\ \/ part = "sms" /\ tenant = "ACTIVE"
           \/ part = "wallet" /\ smsConfig

Next ==
  \/ part = "sms" /\ SmsNext /\ UNCHANGED <<walletVars, part>>
  \/ part = "wallet" /\ WalletNext /\ UNCHANGED <<smsVars, part>>

Spec == /\ Init /\ [][Next]_moneyVars
        /\ \A r \in Starts : WF_<<accountVars, smsVars>>(LoopStep(r))
        /\ \A n \in Notices : WF_<<accountVars, walletVars>>(NoticeStep(n))

TypeOK == balance \in Int /\ ledger \in Int /\ SmsTypeOK /\ WalletTypeOK

\* The rows of the ledger add up to what has become of the balance, but for
\* what is under way and what a failure lost; only a correction decided on a
\* balance read earlier breaks it (adjust-balance writes the sum it computed,
\* every other path adds to or subtracts from the database's).
LedgerExplainsBalance ==
  /\ TypeOK
  /\ \/ walletHistory.overwrote
     \/ balance = walletHistory.first + ledger - WalletHeld - SmsHeld
=============================================================================
