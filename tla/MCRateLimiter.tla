---- MODULE MCRateLimiter ----
EXTENDS RateLimiter

CONSTANTS n1, n2

MCNotification == {n1, n2}

\* Every rate up to 3 in queue mode; dropping and a disabled limiter at rate 3.
\* A batch of three and a partial one of two both occur at rate 3, and the rate
\* 1 is the one at which no notification is ever started directly.
MCConfigs ==
    [rate : 1..3, enabled : {TRUE}, overrate : {"queue"}]
    \cup [rate : {3}, enabled : {TRUE}, overrate : {"drop"}]
    \cup [rate : {3}, enabled : {FALSE}, overrate : {"queue"}]
====
