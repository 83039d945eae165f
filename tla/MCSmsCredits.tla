---------------------------- MODULE MCSmsCredits ----------------------------
(* Small instances of SmsCredits for TLC. *)
EXTENDS SmsCredits, TLC

CONSTANTS m1, m2, m3, b1, b2

\* A call with two recipients and a reminder.
PairAndReminder == b1 :> <<m1, m2>> @@ b2 :> <<m3>>
OneOfThem ==
  {b1 :> "send" @@ b2 :> None, b1 :> "campaign" @@ b2 :> None, b1 :> None @@ b2 :> "notify"}

\* The second body has two segments, which the allowance pays in part.
SecondLong == m1 :> 1 @@ m2 :> 2 @@ m3 :> 1

\* The second message is the one that is retried, by cron and by hand.
SecondOnce == m1 :> 0 @@ m2 :> 1 @@ m3 :> 0
=============================================================================
