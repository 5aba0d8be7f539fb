---------------------------- MODULE MCEventLoop ----------------------------
(* Model-checking instances of EventLoop.                                  *)
EXTENDS EventLoop

(* All servers on one port, as two asio.server calls with the same port.   *)
OnePort == [s \in Servers |-> 80]
=============================================================================
