------------------------------ MODULE Webhook ------------------------------
(***************************************************************************)
(* Delivery of one webhook: Send starts a goroutine per URL, which makes   *)
(* up to three attempts with pauses of five seconds, within a context of   *)
(* thirty seconds and with ten seconds per request. Time is in units of    *)
(* five seconds, and a request or a pause takes whole units.               *)
(***************************************************************************)
EXTENDS Naturals, FiniteSets

CONSTANTS
  Urls,          \* the Slack and the Discord URL, as far as the user has set them
  MaxSends       \* bound on the events that are sent

ASSUME WebhookAssumption == IsFiniteSet(Urls) /\ MaxSends \in Nat

MaxAttempts == 3
Pause == 1
RequestTimeout == 2

(* Mutant: the context of the goroutine has no more than twenty seconds.    *)
DetachedTimeoutShort == 4

DetachedTimeout == 6

VARIABLES
  enabled,   \* the user wants this event
  sends,     \* events so far, up to MaxSends
  delivery   \* delivery[u]: where its goroutine is, the attempt, the units since it began,
             \*   attempts that ran into a timeout, requests that went out, and the outcome

webhookVars == <<enabled, sends, delivery>>

NoDelivery == [at |-> "none", attempt |-> 1, elapsed |-> 0, slow |-> 0, requests |-> 0]

WebhookInit ==
  /\ enabled \in BOOLEAN /\ sends = 0
  /\ delivery = [u \in Urls |-> NoDelivery]

(* The worker goes on at once; a delivery of an earlier event is not        *)
(* waited for, and is another goroutine (the model has them one at a time). *)
SendWebhook ==
  /\ enabled /\ sends < MaxSends
  /\ \A u \in Urls : delivery[u].at \in {"none", "delivered", "failed"}
  /\ sends' = sends + 1
  /\ delivery' = [u \in Urls |-> [NoDelivery EXCEPT !.at = "attempt"]]
  /\ UNCHANGED enabled

ChangeEvents ==
  /\ enabled' = ~enabled
  /\ UNCHANGED <<sends, delivery>>

Ok(u, took) ==
  delivery' = [delivery EXCEPT ![u].at = "delivered", ![u].elapsed = @ + took, ![u].requests = @ + 1]

(* A failed attempt; the pause does not look at the context.                *)
Failed(u, took, request, slow) ==
  LET last == delivery[u].attempt = MaxAttempts
  IN  delivery' = [delivery EXCEPT ![u] =
        [at |-> IF last THEN "failed" ELSE "attempt",
         attempt |-> IF last THEN @.attempt ELSE @.attempt + 1,
         elapsed |-> @.elapsed + took + (IF last THEN 0 ELSE Pause),
         slow |-> @.slow + slow, requests |-> @.requests + request]]

(* One request: it is answered in time, with a status of 2xx or another, or *)
(* it is cut off by its own timeout or by the context. When the context is  *)
(* over it does not even go out.                                            *)
Attempt(u) ==
  /\ delivery[u].at = "attempt"
  /\ LET left == IF delivery[u].elapsed < DetachedTimeout
                 THEN DetachedTimeout - delivery[u].elapsed ELSE 0
         limit == IF left < RequestTimeout THEN left ELSE RequestTimeout
     IN  IF left = 0
         THEN Failed(u, 0, 0, 0)
         ELSE \/ \E took \in 0..(limit - 1) : Ok(u, took) \/ Failed(u, took, 1, 0)
              \/ Failed(u, limit, 1, 1)
  /\ UNCHANGED <<enabled, sends>>

WebhookNext == SendWebhook \/ ChangeEvents \/ \E u \in Urls : Attempt(u)

WebhookSpec == WebhookInit /\ [][WebhookNext]_webhookVars

-----------------------------------------------------------------------------
(* A goroutine that gives up has made three requests, or it lost the third  *)
(* to a receiver that let both others run into their timeouts; and it is    *)
(* over when its thirty seconds are.                                        *)
WebhookGetsItsTries ==
  \A u \in Urls :
    /\ delivery[u].elapsed <= 6
    /\ delivery[u].at = "failed" => delivery[u].requests = MaxAttempts \/ delivery[u].slow >= 2
=============================================================================
