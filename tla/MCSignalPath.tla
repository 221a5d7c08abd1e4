---- MODULE MCSignalPath ----
(* Instances of SignalPath: one acquisition thread and configuring threads. *)
EXTENDS SignalPath, TLC

CONSTANTS acq, user, other

MCOperations ==
    acq :> {"sendPacket", "setDescriptor", "setDomainSignal"}
    @@ user :> {"connect", "disconnect", "setActive", "removeSignal", "removePort"}
    @@ other :> {"connect", "disconnect"}
MCNewDomainOperations ==
    acq :> {"setDescriptor", "setDomainSignal"} @@ user :> {"connect"} @@ other :> {}
MCMaxCalls == acq :> 2 @@ user :> 2 @@ other :> 1

(* The hypothesis of the theorem on descriptors holds of these instances.  *)
ASSUME MCOneAcquisitionThread == OneAcquisitionThread
====
