----------------------------- MODULE MCTelegram -----------------------------
\* Instances of TelegramNotifier: messages with failures and no notifier, and payments
\* with one next to two recorded users.
EXTENDS TelegramNotifier

Nobody == [u \in Users |-> 0]
Messages(us, terms) == [updates |-> us, terms |-> terms, recorded |-> {}, notifier |-> FALSE, faults |-> 2]

MCWorkloads ==
    {Messages(<<[user |-> 1, cmd |-> c], [user |-> 1, cmd |-> d]>>, Nobody) :
        c \in {"pay", "button"}, d \in {"pay", "get"}}
    \cup {Messages(<<[user |-> 1, cmd |-> c]>>, Nobody) : c \in {"plans", "help", "other", "blank", "group"}}
    \cup {Messages(<<[user |-> 1, cmd |-> c]>>, [Nobody EXCEPT ![1] = 1]) : c \in {"get", "status"}}
    \cup {[updates |-> <<>>, terms |-> [Nobody EXCEPT ![1] = 2], recorded |-> {1, 2},
           notifier |-> TRUE, faults |-> 1]}
=============================================================================
