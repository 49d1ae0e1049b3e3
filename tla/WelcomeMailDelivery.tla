------------------------- MODULE WelcomeMailDelivery -------------------------
(***************************************************************************)
(* What registration promises about the welcome mail (src/README.md, "Auth *)
(* configuration"): a committed registration owes one mail, the mail is    *)
(* put in the queue once, the debt is settled only then, and the queue's   *)
(* consumer sends it once.  WelcomeMailOutbox implements this.             *)
(***************************************************************************)
CONSTANT Mail    \* one welcome mail per registration

VARIABLES owed,     \* registrations that committed
          queued,   \* mails with a job in the queue
          settled,  \* mails the outbox will not try again
          sent      \* mails sent

vars == <<owed, queued, settled, sent>>

TypeOK ==
  /\ owed \subseteq Mail
  /\ queued \subseteq owed
  /\ settled \subseteq queued
  /\ sent \subseteq queued

Init == owed = {} /\ queued = {} /\ settled = {} /\ sent = {}

Owe(m) ==
  /\ m \notin owed
  /\ owed' = owed \cup {m}
  /\ UNCHANGED <<queued, settled, sent>>

Queue(m) ==
  /\ m \in owed \ queued
  /\ queued' = queued \cup {m}
  /\ UNCHANGED <<owed, settled, sent>>

Settle(m) ==
  /\ m \in queued \ settled
  /\ settled' = settled \cup {m}
  /\ UNCHANGED <<owed, queued, sent>>

Send(m) ==
  /\ m \in queued \ sent
  /\ sent' = sent \cup {m}
  /\ UNCHANGED <<owed, queued, settled>>

Next == \E m \in Mail : Owe(m) \/ Queue(m) \/ Settle(m) \/ Send(m)

Spec == Init /\ [][Next]_vars

=============================================================================
