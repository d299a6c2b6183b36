---- MODULE MCLdPreload ----
\* Three vectors of one byte: with a buffer of two bytes the call sends two messages.
EXTENDS LdPreload

TwoMessages == {<<1, 1, 1>>}

\* Both kinds of sends with epoll; poll, which holds m_mutex, with buffered ones.
ThreeSetups == {[eager |-> TRUE, waitsBy |-> "epoll"], [eager |-> FALSE, waitsBy |-> "epoll"],
                [eager |-> TRUE, waitsBy |-> "poll"]}
====
