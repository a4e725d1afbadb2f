----------------------------- MODULE MCNativeWorker ----------------------------
(* Small instances of NativeWorker; the configurations choose the bounds.  *)
EXTENDS NativeWorker

\* Where a KeyboardInterrupt may hit the caller.
Nowhere == {}
InCall == {"starting", "sending", "waiting", "receiving", "discarding"}
NotInSend == {"starting", "waiting"}
===============================================================================
