SPECIFICATION FairSpec
CONSTANTS
  la1 = la1 la2 = la2 ra = ra rc = rc i1 = i1 i2 = i2
  Socket = {la1, la2, ra, rc}
  ActorSocket = {la1, la2, ra}
  Url = {"actors", "callers"}
  UrlOf <- UrlOfEach
  Interceptor = {i1, i2}
  interceptors <- OneInterceptor
  localActors <- Locals
  MaxListed <- ListedEach
  MaxCalls <- OneCall
INVARIANTS TypeOK LocalsLeaveFirst LocalsServed EveryInterceptorAgreed
PROPERTIES ListenSettles CloseEnds
CHECK_DEADLOCK FALSE
