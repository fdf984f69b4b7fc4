------------------------------- MODULE Requests -------------------------------
(* What the models of Core's tools have in common: REST requests that are in  *)
(* progress at a time, each in a thread or coroutine of its own.              *)
EXTENDS Naturals, FiniteSets

CONSTANTS
  Request,    \* REST requests in progress at a time
  None,       \* no request, run, script or interface
  MaxFaults   \* disturbances in a behaviour
===============================================================================
