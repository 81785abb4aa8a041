----------------------------- MODULE KafkaFeed -----------------------------
(***************************************************************************)
(* The kafka mode of the server: a consumer thread moves the alerts of the *)
(* alerts-normalized topic to one bounded queue, from which the streams of *)
(* all dashboards take turns.  A generator can be suspended after every    *)
(* alert it yields, so each is a step.  The worker delivers at least once: *)
(* the same alert may come again.                                          *)
(***************************************************************************)
EXTENDS LiveStream, Sequences

CONSTANTS MaxKafkaQueue,   \* maxsize of _kafka_alert_queue (2000)
          MaxMessages      \* bound on the messages on the topic

ASSUME KafkaAssumption == MaxKafkaQueue \in Nat \ {0} /\ MaxMessages \in Nat

VARIABLES kafkaQueue,   \* _kafka_alert_queue
          messages,     \* history: how many messages the topic has had
          accepted,     \* history: the alerts that found room in the queue
          reached,      \* history: the alerts pushed on some stream
          cut           \* history: the alerts a stream took whose link was gone

kafkaVars == <<kafkaQueue, messages, accepted, reached, cut>>

KafkaInit ==
    /\ kafkaQueue = <<>> /\ messages = 0 /\ accepted = {} /\ reached = {} /\ cut = {}

(* _consume: a message is put, or lost when the queue is full or it cannot *)
(* be decoded.                                                             *)
Consume(a) ==
    /\ messages < MaxMessages /\ messages' = messages + 1
    /\ \/ /\ Len(kafkaQueue) < MaxKafkaQueue
          /\ kafkaQueue' = Append(kafkaQueue, a) /\ accepted' = accepted \cup {a}
       \/ UNCHANGED <<kafkaQueue, accepted>>
    /\ UNCHANGED <<now, replayVars, streamVars, stale, reached, cut>>

Seen(c, a) == a \in sent[c]

BugTaken(q) == <<>>        \* the queue emptied for one alert, as in dataset mode
Taken(q) == Tail(q)

(* One alert of a stream's turn, which goes on for 50 of them.             *)
KafkaPush(c) ==
    /\ c \in open /\ kafkaQueue # <<>>
    /\ kafkaQueue' = Taken(kafkaQueue)
    /\ LET a == Head(kafkaQueue) IN
       IF Seen(c, a) THEN UNCHANGED <<sent, reached>>
       ELSE /\ sent' = [sent EXCEPT ![c] = @ \cup {a}]
            /\ reached' = reached \cup {a}
    /\ UNCHANGED <<now, replayVars, open, lastTs, pushed, floor, stale, messages, accepted, cut>>

(* The link broke after the turn had asked for it: the yield of the alert  *)
(* in hand ends the stream, and the alert is in no queue any more.         *)
KafkaCut(c) ==
    /\ c \in open /\ kafkaQueue # <<>> /\ ~Seen(c, Head(kafkaQueue))
    /\ kafkaQueue' = Taken(kafkaQueue)
    /\ cut' = cut \cup {Head(kafkaQueue)}
    /\ sent' = [sent EXCEPT ![c] = @ \cup {Head(kafkaQueue)}]
    /\ open' = open \ {c}
    /\ UNCHANGED <<now, replayVars, lastTs, pushed, floor, stale, messages, accepted, reached>>

KafkaNext ==
    \/ \E a \in Alerts : Consume(a)
    \/ \E c \in Clients : \/ KafkaPush(c) \/ KafkaCut(c)
                          \/ (Connect(c) \/ Disconnect(c)) /\ UNCHANGED kafkaVars

=============================================================================
