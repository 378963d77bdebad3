----------------------------- MODULE MCAutonomyWake -----------------------------
(* A heartbeat and two or three calls for one cron job; and the calls that fill *)
(* a queue of three: a proactive wake, two calls for a cron job and one for     *)
(* another.                                                                     *)
EXTENDS AutonomyWake

WakeKeys == {"heartbeat:loop", "cron:a"}
WakeKindOf == [k \in WakeKeys |-> IF k = "heartbeat:loop" THEN "heartbeat" ELSE "cron"]

WakeCalls == {"beat", "cron1", "cron2", "cron3"}
FewCalls == WakeCalls \ {"cron3"}

WakeKeyOf == [c \in WakeCalls |-> IF c = "beat" THEN "heartbeat:loop" ELSE "cron:a"]
FewKeyOf == [c \in FewCalls |-> WakeKeyOf[c]]

WakePriority == [beat |-> 10, cron1 |-> 50, cron2 |-> 20, cron3 |-> 50]
FewPriority == [c \in FewCalls |-> WakePriority[c]]

FullKeys == WakeKeys \union {"proactive:memory_monitor", "cron:b"}
FullKindOf == [k \in FullKeys |-> CASE k = "heartbeat:loop" -> "heartbeat"
                                    [] k = "proactive:memory_monitor" -> "proactive"
                                    [] OTHER -> "cron"]
FullKeyOf == [watch |-> "proactive:memory_monitor", cron1 |-> "cron:a", cron2 |-> "cron:a",
              other |-> "cron:b"]
FullCalls == DOMAIN FullKeyOf
FullPriority == [c \in FullCalls |-> IF c = "watch" THEN 30 ELSE 50]
===============================================================================
