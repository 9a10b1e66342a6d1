SPECIFICATION Spec
CONSTANTS
  MQTT_KEEPALIVE = 5
  MQTT_SOCKET_TIMEOUT = 3
  MaxPass = 1
  MaxDelay = 2
  MaxBacklog = 2
INVARIANTS
  TypeOK
  BrokerHears
  DeadLinkFound
PROPERTIES
  HealthyStaysUp
