SPECIFICATION Spec
CONSTANTS
  Limit = 2
  Clients = {{"HTTP2", "Headers", "RateLimiter"}, {"Timeout", "Metrics", "HTTP2"}, {"Retries", "Metrics"}, {"Retries", "Metrics", "Timeout"}, {"Retries", "HTTP2", "Tracing"}}
  Methods = {"GET", "POST"}
  Policies = {"straightforward", "unconditional", "slug", "idempotency"}
INVARIANTS AnswerOfLastAttempt OneResponseOpen NotRepeatedOnceBroken RetriedBodyIsWhole
PROPERTY CallReturns
CHECK_DEADLOCK FALSE
