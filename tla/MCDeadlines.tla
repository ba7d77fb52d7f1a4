----------------------------- MODULE MCDeadlines -----------------------------
(* Instance of Deadlines for TLC: every day from December 2020 to January  *)
(* 2023 as a trigger (a first of January on a Saturday, one on a Sunday,   *)
(* holidays observed on Fridays and Mondays), the weeks around a leap day, *)
(* and the inputs the engine refuses.                                      *)
EXTENDS Deadlines

Input(json, trigger, days, direction, mail, jurisdiction) ==
  [json |-> json, trigger |-> trigger, days |-> days, direction |-> direction,
   mail |-> mail, jurisdiction |-> jurisdiction]

Triggers ==
  {DateOf(n) : n \in DayOf(<<2020, 12, 1>>) .. DayOf(<<2023, 1, 31>>)
               \cup DayOf(<<2024, 2, 20>>) .. DayOf(<<2024, 3, 5>>)}

MCInputs ==
  {Input(TRUE, t, days, way[1], way[2], "US-FED") :
     t \in Triggers, days \in {1, 3, 14},
     way \in {<<"forward", FALSE>>, <<"forward", TRUE>>, <<"backward", FALSE>>}}
  \cup
  {Input(TRUE, t, days, "backward", mail, jurisdiction) :
     t \in {None, <<2021, 12, 30>>}, days \in {None, -1, 0, 1}, mail \in BOOLEAN,
     jurisdiction \in {"US-FED", "US-CA"}}
  \cup {Input(FALSE, None, None, "forward", FALSE, "US-FED")}
===============================================================================
