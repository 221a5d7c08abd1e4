------------------------- MODULE MCPacketNotification -------------------------
(* Instances of PacketNotification for TLC: one kind of data packet; the   *)
(* recorders' way of reading is paired with the methods that notify for    *)
(* every packet.                                                           *)
EXTENDS PacketNotification

MCDomains == {NoDomain}
MCNotifyMethods ==
    [r \in {"dequeue", "dequeueAll"} |->
        IF r = "dequeue" THEN {"SameThread", "Scheduler", "SchedulerQueueWasEmpty"}
                         ELSE {"SameThread", "Scheduler"}]
================================================================================
