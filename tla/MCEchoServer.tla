---------------------------- MODULE MCEchoServer -----------------------------
(* Model-checking instance of EchoServer: two clients on one port and one   *)
(* on another, texts of odd and even length whose words carry.              *)
EXTENDS EchoServer
MCPortOf == <<12345, 12345, 65535>>
MCTextOf == <<<<250>>, <<255, 254>>, <<255, 255, 255, 1>>>>
=============================================================================
