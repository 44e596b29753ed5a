------------------------------ MODULE ClientCtx ------------------------------
(***************************************************************************)
(* A client of core/client_ctx.go and its plugins (core/plugin_ctx.go):    *)
(* the plugins are created one after the other, register for the event     *)
(* MSG_DG_MAC_RESOLVED on the client's bus, and the client polls once a    *)
(* second, MaxAttempts times, for its gateways' MAC addresses and tells    *)
(* the bus what it found.                                                  *)
(*                                                                         *)
(* A plugin of Both starts one thing per family, as appsim does; one of    *)
(* Single waits for its own family and starts once, as ipfix and tdl do.   *)
(* cctx.starts counts the calls of OnResolve; gw is what ARP, ND and the   *)
(* configuration say about the gateways at this moment.                    *)
(***************************************************************************)
EXTENDS Naturals

CONSTANTS Both, Single,   \* the plugins of the two styles
          FamilyOf,       \* the family a plugin of Single uses
          MaxAttempts     \* 5 in the code

ASSUME ClientAssumption ==
    /\ FamilyOf \in [Single -> {"v4", "v6"}]
    /\ MaxAttempts \in Nat

VARIABLES cctx, gw
clvars == <<cctx, gw>>

Families == {"v4", "v6"}
Plugins == Both \cup Single

NewClient ==
    [life |-> "none", plugs |-> {}, bus |-> {}, mask |-> {}, attempts |-> 0,
     polls |-> 0, timer |-> FALSE, known |-> [p \in Plugins |-> {}],
     starts |-> [p \in Plugins |-> [f \in Families |-> 0]]]

---------------------------------------------------------------------------
(* The event bus.  MapEventBus.Add lists a plugin once, and what a plugin  *)
(* does about an event is its own: the order of the bus is not observable. *)

(* OnEvent of the plugins: the mask names every family resolved so far,    *)
(* and what the plugin has already acted on (known) is skipped.            *)
OnMacResolvedAgain(p, known, mask) == IF p \in Both THEN mask ELSE {FamilyOf[p]} \cap mask
OnMacResolved(p, known, mask) ==
    (IF p \in Both THEN mask ELSE {FamilyOf[p]} \cap mask) \ known

BroadcastMsg(c, mask) ==
    LET new == [p \in Plugins |->
                  IF p \in c.bus THEN OnMacResolved(p, c.known[p], mask) ELSE {}]
    IN  [c EXCEPT !.known = [p \in Plugins |-> @[p] \cup new[p]],
                  !.starts = [p \in Plugins |-> [f \in Families |->
                                IF f \in new[p] THEN @[p][f] + 1 ELSE @[p][f]]]]

---------------------------------------------------------------------------
(* The client.                                                             *)

(* ResolveIPv4DGMac and ResolveIPv6DGMac: the forced gateways are always   *)
(* resolved, the others when ARP, ND or a router advertisement says so.    *)
DgResolved == gw.forced \cup gw.learned

(* CClient.OnEvent: each family still unknown is looked up, the plugins    *)
(* are told if one is new, and the timer is started again while one is     *)
(* missing and attempts are left.                                          *)
PollDg(c) ==
    LET found == DgResolved \ c.mask
        d == [c EXCEPT !.mask = @ \cup found, !.polls = @ + 1, !.timer = FALSE]
        e == IF found # {} THEN BroadcastMsg(d, d.mask) ELSE d
    IN  IF e.attempts < MaxAttempts /\ e.mask # Families
        THEN [e EXCEPT !.attempts = @ + 1, !.timer = TRUE] ELSE e

(* addPlugin, for the plugins tried one after the other: NewPlugin         *)
(* registers the events first, so the bus also lists the one that failed.  *)
(* A plugin of Both starts at once for the forced gateways                 *)
(* (NewAppSimClient).                                                      *)
addPlugins(c, made, failed) ==
    LET forced == [p \in Plugins |-> IF p \in made \cap Both THEN gw.forced ELSE {}]
    IN  [c EXCEPT !.bus = made \cup failed, !.plugs = made, !.known = forced,
                  !.starts = [p \in Plugins |-> [f \in Families |->
                                IF f \in forced[p] THEN 1 ELSE 0]]]

(* ApiClientAddHandler for one client: its plugins in the order of a map,  *)
(* then AttemptResolve, whose first poll is immediate.  A plugin that      *)
(* fails ends the command: the client stays, without the later plugins     *)
(* and without polling.                                                    *)
ClAdd ==
    /\ cctx.life = "none"
    /\ \/ cctx' = PollDg([addPlugins(NewClient, Plugins, {}) EXCEPT !.life = "up"])
       \/ \E p \in Plugins : \E made \in SUBSET (Plugins \ {p}) :
            cctx' = [addPlugins(NewClient, made, {p}) EXCEPT !.life = "half"]
    /\ UNCHANGED gw

ClPoll == cctx.timer /\ cctx' = PollDg(cctx) /\ UNCHANGED gw

(* OnRemove of the client and of its plugin context.                       *)
ClRemove ==
    /\ cctx.life \in {"up", "half"}
    /\ cctx' = [cctx EXCEPT !.life = "removed", !.timer = FALSE, !.plugs = {}, !.bus = {}]
    /\ UNCHANGED gw

(* A gateway is learned or forgotten.                                      *)
GwChanges ==
    /\ \E l \in SUBSET Families : gw' = [gw EXCEPT !.learned = l]
    /\ UNCHANGED cctx

ClInit == cctx = NewClient /\ gw \in [forced : SUBSET Families, learned : {{}}]

ClNext == ClAdd \/ ClPoll \/ ClRemove \/ GwChanges

ClSpec == ClInit /\ [][ClNext]_clvars

---------------------------------------------------------------------------
(* Every live plugin has started exactly once for each family that it uses *)
(* and that the client has announced, and for no other, although each      *)
(* announcement repeats the earlier families and forced gateways are       *)
(* acted on before the first one.                                          *)
ClStartsOnce ==
    cctx.life = "up" =>
      \A p \in cctx.plugs, f \in Families :
        cctx.starts[p][f] =
          IF f \in cctx.mask /\ (p \in Both \/ FamilyOf[p] = f) THEN 1 ELSE 0

(* Polling goes on until both families are resolved or the attempts are    *)
(* used up: a client that has stopped polling has announced both, or has   *)
(* looked 1 + MaxAttempts times.                                           *)
ClPollsOn ==
    cctx.life = "up" /\ ~cctx.timer => cctx.mask = Families \/ cctx.polls = 1 + MaxAttempts

\* The plugins of a client start once per address family, and the client polls until they have.
ClientSound == ClStartsOnce /\ ClPollsOn
=============================================================================
