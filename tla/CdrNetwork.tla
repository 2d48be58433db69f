----------------------------- MODULE CdrNetwork -----------------------------
(***************************************************************************)
(* The services of the recorder that others reach it by: the RTSP server,  *)
(* the server for the phone application, and the platform's commands with  *)
(* the push they control.  Nothing that is modelled of one is read or      *)
(* written by another (each has its own bound on descriptors), and so one  *)
(* moves per behaviour while the others rest: this module only lets one    *)
(* run search the states of all four, and says nothing of how they meet.   *)
(***************************************************************************)
EXTENDS RtspConn, AppService, Portal, RtspPush

VARIABLE service   \* the one that moves

vars == <<service, connVars, appVars, portalVars, pushVars>>

Some(S) == CHOOSE x \in S : TRUE

Init ==
    /\ service \in {"rtsp", "app", "portal", "push"}
    /\ ConnInit /\ AppInit /\ PortalInit /\ PushInit
    /\ service # "rtsp" => script = Some(Scripts)
    /\ service # "app" => appScript = Some(AppScripts)
    /\ service # "portal" => portal = Some(PortalScripts)
    /\ service # "push" => pushScript = Some(PushScripts)

Next ==
    /\ UNCHANGED service
    /\ \/ service = "rtsp" /\ ConnNext /\ UNCHANGED <<appVars, portalVars, pushVars>>
       \/ service = "app" /\ AppNext /\ UNCHANGED <<connVars, portalVars, pushVars>>
       \/ service = "portal" /\ PortalNext /\ UNCHANGED <<connVars, appVars, pushVars>>
       \/ service = "push" /\ PushNext /\ UNCHANGED <<connVars, appVars, portalVars>>

Spec == Init /\ [][Next]_vars
=============================================================================
